---- MODULE Spec2Model ----
(***************************************************************************)
(* A model of the SISL codec: the escape codec (unicode_escape.cpp), the   *)
(* lexer and parser (sisl_lexer.cpp, sisl_parser.cpp), the value codec     *)
(* (sisl_codec.cpp), the merge engine (merge.cpp), the split engine        *)
(* (split.cpp) and the command-line front end (main.cpp).                  *)
(*                                                                         *)
(* Byte strings are sequences of integers 0..255.  JSON values are records *)
(* tagged by "kind"; objects keep their entries in insertion order, as     *)
(* nlohmann::ordered_json does.  A function of the program that can throw  *)
(* is an operator returning a record [err, val]: err = "none" or the name  *)
(* of the exception type.                                                  *)
(***************************************************************************)
EXTENDS Integers, Sequences, FiniteSets, TLC

----------------------------------------------------------------------------
(* Bytes and character literals *)

\* The printable ASCII characters, in code order starting at 0x20.
AsciiPrintable ==
  << " ", "!", "\"", "#", "$", "%", "&", "'", "(", ")", "*", "+", ",", "-",
     ".", "/", "0", "1", "2", "3", "4", "5", "6", "7", "8", "9", ":", ";",
     "<", "=", ">", "?", "@", "A", "B", "C", "D", "E", "F", "G", "H", "I",
     "J", "K", "L", "M", "N", "O", "P", "Q", "R", "S", "T", "U", "V", "W",
     "X", "Y", "Z", "[", "\\", "]", "^", "_", "(backtick)", "a", "b", "c", "d", "e",
     "f", "g", "h", "i", "j", "k", "l", "m", "n", "o", "p", "q", "r", "s",
     "t", "u", "v", "w", "x", "y", "z", "{", "|", "}", "~" >>

\* The byte value of a character literal.
Ord == [c \in {AsciiPrintable[k] : k \in 1..Len(AsciiPrintable)} |->
          31 + CHOOSE k \in 1..Len(AsciiPrintable) : AsciiPrintable[k] = c]

\* The byte string of a string literal, written as a tuple of characters.
B(chars) == [k \in 1..Len(chars) |-> Ord[chars[k]]]

LF == Ord[" "] - 22
CR == Ord[" "] - 19
TAB == Ord[" "] - 23

Ok(x) == [err |-> "none", val |-> x]
Throw(e) == [err |-> e, val |-> <<>>]

\* The rest of a function after a call that returned r: an exception
\* leaves the function, a value goes on to Rest.
AndThen(r, Rest(_)) == IF r.err # "none" THEN r ELSE Rest(r)

\* A local variable set to v and used by Body.
With(v, Body(_)) == Body(v)

----------------------------------------------------------------------------
(* unicode_escape.cpp *)

is_hex_digit(c) ==
  \/ (c >= Ord["0"] /\ c <= Ord["9"])
  \/ (c >= Ord["a"] /\ c <= Ord["f"])
  \/ (c >= Ord["A"] /\ c <= Ord["F"])

hex_value(c) ==
  IF c >= Ord["0"] /\ c <= Ord["9"] THEN c - Ord["0"]
  ELSE IF c >= Ord["a"] /\ c <= Ord["f"] THEN c - Ord["a"] + 10
  ELSE IF c >= Ord["A"] /\ c <= Ord["F"] THEN c - Ord["A"] + 10
  ELSE 0

\* static_cast<char> of an int: the low eight bits.
ToChar(n) == n % 256

\* The first value that is no code point, 0x110000.
CodePointLimit == 1114112

codepoint_to_utf8(cp) ==
  IF cp < 128 THEN Ok(<<ToChar(cp)>>)
  ELSE IF cp < 2048 THEN
    Ok(<<ToChar(192 + (cp \div 64)), ToChar(128 + (cp % 64))>>)
  ELSE IF cp < 65536 THEN
    Ok(<<ToChar(224 + (cp \div 4096)), ToChar(128 + ((cp \div 64) % 64)),
         ToChar(128 + (cp % 64))>>)
  ELSE IF cp < CodePointLimit THEN
    Ok(<<ToChar(240 + (cp \div 262144)), ToChar(128 + ((cp \div 4096) % 64)),
         ToChar(128 + ((cp \div 64) % 64)), ToChar(128 + (cp % 64))>>)
  ELSE Throw("EscapeError")

\* parse_hex: val is <<value, pos>> after count hex digits read from pos.
\* At most eight digits are read, so the uint32_t value never wraps; every
\* value from 0x110000 up is treated alike by codepoint_to_utf8 and is kept
\* here as 0x110000.
RECURSIVE parse_hex_loop(_, _, _, _)
parse_hex_loop(input, pos, count, value) ==
  IF count = 0 THEN Ok(<<value, pos>>)
  ELSE IF pos > Len(input) \/ ~is_hex_digit(input[pos]) THEN Throw("EscapeError")
  ELSE LET shifted == (value * 16) + hex_value(input[pos])
       IN  parse_hex_loop(input, pos + 1, count - 1,
                          IF shifted >= CodePointLimit THEN CodePointLimit
                          ELSE shifted)

parse_hex(input, pos, count) == parse_hex_loop(input, pos, count, 0)

RECURSIVE unescape_loop(_, _, _)
unescape_loop(input, pos, result) ==
  IF pos > Len(input) THEN Ok(result)
  ELSE IF input[pos] = Ord["\\"] /\ pos + 1 <= Len(input) THEN
    LET c == input[pos + 1]
        p == pos + 2
    IN  IF c = Ord["\""] THEN unescape_loop(input, p, Append(result, Ord["\""]))
        ELSE IF c = Ord["\\"] THEN unescape_loop(input, p, Append(result, Ord["\\"]))
        ELSE IF c = Ord["r"] THEN unescape_loop(input, p, Append(result, CR))
        ELSE IF c = Ord["t"] THEN unescape_loop(input, p, Append(result, TAB))
        ELSE IF c = Ord["n"] THEN unescape_loop(input, p, Append(result, LF))
        ELSE IF c = Ord["x"] THEN
          AndThen(parse_hex(input, p, 2), LAMBDA h :
            unescape_loop(input, h.val[2], Append(result, ToChar(h.val[1]))))
        ELSE IF c = Ord["u"] \/ c = Ord["U"] THEN
          AndThen(parse_hex(input, p, IF c = Ord["u"] THEN 4 ELSE 8), LAMBDA h :
            AndThen(codepoint_to_utf8(h.val[1]), LAMBDA u :
              unescape_loop(input, h.val[2], result \o u.val)))
        ELSE Throw("EscapeError")
  ELSE unescape_loop(input, pos + 1, Append(result, input[pos]))

unescape_sisl_string(input) == unescape_loop(input, 1, <<>>)

\* Lower-case hexadecimal digit of a value 0..15, as std::hex prints it.
HexChar(d) == IF d < 10 THEN Ord["0"] + d ELSE Ord["a"] + (d - 10)

\* A variant of escape_byte that leaves the backslash as it is.
escape_byte_raw_backslash(c) ==
  IF c = Ord["\""] THEN B(<<"\\", "\"">>)
  ELSE IF c = CR THEN B(<<"\\", "r">>)
  ELSE IF c = TAB THEN B(<<"\\", "t">>)
  ELSE IF c = LF THEN B(<<"\\", "n">>)
  ELSE IF c >= 32 /\ c <= 126 THEN <<c>>
  ELSE B(<<"\\", "x">>) \o <<HexChar(c \div 16), HexChar(c % 16)>>

\* The body of the loop of escape_sisl_string: the escaped form of one byte.
escape_byte(c) ==
  IF c = Ord["\""] THEN B(<<"\\", "\"">>)
  ELSE IF c = Ord["\\"] THEN B(<<"\\", "\\">>)
  ELSE IF c = CR THEN B(<<"\\", "r">>)
  ELSE IF c = TAB THEN B(<<"\\", "t">>)
  ELSE IF c = LF THEN B(<<"\\", "n">>)
  ELSE IF c >= 32 /\ c <= 126 THEN <<c>>
  ELSE B(<<"\\", "x">>) \o <<HexChar(c \div 16), HexChar(c % 16)>>

RECURSIVE escape_sisl_string(_)
escape_sisl_string(input) ==
  IF input = <<>> THEN <<>>
  ELSE escape_byte(Head(input)) \o escape_sisl_string(Tail(input))

----------------------------------------------------------------------------
(* sisl_lexer.cpp *)

\* A Lexer just constructed: pos_ = 0, line_ = 1, column_ = 1, nothing peeked.
NoToken == [type |-> "NONE", value |-> <<>>, line |-> 0, column |-> 0]

NewLexer ==
  [pos |-> 0, line |-> 1, column |-> 1, has_peeked |-> FALSE,
   peeked_token |-> NoToken]

Token(type, value, line, column) ==
  [type |-> type, value |-> value, line |-> line, column |-> column]

\* An exception that carries a position (LexerError, ParseError).
ThrowAt(e, line, column) == [err |-> e, line |-> line, column |-> column]

at_end(input, lx) == lx.pos >= Len(input)

current(input, lx) == IF lx.pos < Len(input) THEN input[lx.pos + 1] ELSE 0

\* A variant of advance that counts a line feed as any other byte.
advance_flat(input, lx) ==
  IF lx.pos < Len(input)
  THEN [lx EXCEPT !.column = @ + 1, !.pos = @ + 1]
  ELSE lx

advance(input, lx) ==
  IF lx.pos < Len(input) THEN
    IF input[lx.pos + 1] = LF
    THEN [lx EXCEPT !.line = @ + 1, !.column = 1, !.pos = @ + 1]
    ELSE [lx EXCEPT !.column = @ + 1, !.pos = @ + 1]
  ELSE lx

is_whitespace(c) == c = Ord[" "] \/ c = TAB \/ c = CR \/ c = LF

is_name_start(c) ==
  \/ c = Ord["_"]
  \/ (c >= Ord["A"] /\ c <= Ord["Z"])
  \/ (c >= Ord["a"] /\ c <= Ord["z"])

is_name_char(c) ==
  \/ is_name_start(c)
  \/ c = Ord["-"]
  \/ c = Ord["."]
  \/ (c >= Ord["0"] /\ c <= Ord["9"])

RECURSIVE skip_whitespace(_, _)
skip_whitespace(input, lx) ==
  IF ~at_end(input, lx) /\ is_whitespace(current(input, lx))
  THEN skip_whitespace(input, advance(input, lx))
  ELSE lx

\* The inner for loop of scan_string after \x, \u or \U: up to n more bytes
\* are taken, stopping at the end of input or at a double quote.
\* Returns <<value, lexer>>.
RECURSIVE scan_hex_tail(_, _, _, _)
scan_hex_tail(input, lx, n, value) ==
  IF n > 0 /\ ~at_end(input, lx) /\ current(input, lx) # Ord["\""]
  THEN scan_hex_tail(input, advance(input, lx), n - 1,
                     Append(value, current(input, lx)))
  ELSE <<value, lx>>

\* The while loop of scan_string, from the byte after the opening quote.
RECURSIVE scan_string_loop(_, _, _, _, _)
scan_string_loop(input, lx, value, start_line, start_col) ==
  IF ~at_end(input, lx) /\ current(input, lx) # Ord["\""] THEN
    IF current(input, lx) = Ord["\\"] THEN
      LET l1 == advance(input, lx)
          c == current(input, l1)
          v1 == value \o <<Ord["\\"], c>>
          n == IF c = Ord["x"] THEN 2 ELSE IF c = Ord["u"] THEN 4 ELSE 8
      IN  IF at_end(input, l1) THEN ThrowAt("LexerError", l1.line, l1.column)
          ELSE IF c = Ord["x"] \/ c = Ord["u"] \/ c = Ord["U"] THEN
            LET t == scan_hex_tail(input, advance(input, l1), n, v1)
            IN  scan_string_loop(input, t[2], t[1], start_line, start_col)
          ELSE scan_string_loop(input, advance(input, l1), v1,
                                start_line, start_col)
    ELSE scan_string_loop(input, advance(input, lx),
                          Append(value, current(input, lx)),
                          start_line, start_col)
  ELSE IF at_end(input, lx) THEN ThrowAt("LexerError", start_line, start_col)
  ELSE [err |-> "none",
        tok |-> Token("STRING", value, start_line, start_col),
        lx |-> advance(input, lx)]

scan_string(input, lx) ==
  scan_string_loop(input, advance(input, lx), <<>>, lx.line, lx.column)

RECURSIVE scan_name_loop(_, _, _)
scan_name_loop(input, lx, value) ==
  IF ~at_end(input, lx) /\ is_name_char(current(input, lx))
  THEN scan_name_loop(input, advance(input, lx),
                      Append(value, current(input, lx)))
  ELSE <<value, lx>>

scan_name(input, lx) ==
  LET r == scan_name_loop(input, lx, <<>>)
  IN  [err |-> "none", tok |-> Token("NAME", r[1], lx.line, lx.column),
       lx |-> r[2]]

\* The token type of a single-byte token, or "" for any other byte.
PunctType(c) ==
  IF c = Ord["{"] THEN "LBRACE"
  ELSE IF c = Ord["}"] THEN "RBRACE"
  ELSE IF c = Ord[":"] THEN "COLON"
  ELSE IF c = Ord[","] THEN "COMMA"
  ELSE IF c = Ord["!"] THEN "BANG"
  ELSE ""

\* Lexer::next_token after skip_whitespace, with c the current byte.
scan_token(input, lx, c) ==
  IF at_end(input, lx) THEN
    [err |-> "none",
     tok |-> Token("END_OF_INPUT", <<>>, lx.line, lx.column), lx |-> lx]
  ELSE IF PunctType(c) # "" THEN
    [err |-> "none",
     tok |-> Token(PunctType(c), <<c>>, lx.line, lx.column),
     lx |-> advance(input, lx)]
  ELSE IF c = Ord["\""] THEN scan_string(input, lx)
  ELSE IF is_name_start(c) THEN scan_name(input, lx)
  ELSE ThrowAt("LexerError", lx.line, lx.column)

next_token_at(input, lx) == scan_token(input, lx, current(input, lx))

\* Lexer::next_token: [err, tok, lx], or [err, line, column] when it throws.
next_token(input, lx0) ==
  IF lx0.has_peeked THEN
    [err |-> "none", tok |-> lx0.peeked_token,
     lx |-> [lx0 EXCEPT !.has_peeked = FALSE]]
  ELSE next_token_at(input, skip_whitespace(input, lx0))

\* A variant of peek_token that does not keep the token.
peek_token_consuming(input, lx) ==
  IF ~lx.has_peeked THEN next_token(input, lx)
  ELSE [err |-> "none", tok |-> lx.peeked_token, lx |-> lx]

\* Lexer::peek_token: the lexer keeps the token it returns.
peek_token(input, lx) ==
  IF ~lx.has_peeked THEN
    AndThen(next_token(input, lx), LAMBDA r :
      [err |-> "none", tok |-> r.tok,
       lx |-> [r.lx EXCEPT !.has_peeked = TRUE, !.peeked_token = r.tok]])
  ELSE [err |-> "none", tok |-> lx.peeked_token, lx |-> lx]

----------------------------------------------------------------------------
(* sisl_parser.cpp *)

\* An Element: a string payload (is_string, content) or a grouping (elements).
StringElement(name, type, content) ==
  [name |-> name, type |-> type, is_string |-> TRUE, content |-> content,
   elements |-> <<>>]

GroupingElement(name, type, elements) ==
  [name |-> name, type |-> type, is_string |-> FALSE, content |-> <<>>,
   elements |-> elements]

\* The tokens the parser's lexer_ yields for input, call after call of
\* next_token, up to END_OF_INPUT.  The lexer reads the input from left to
\* right whatever the parser does with the tokens, so the parser is modelled
\* on this sequence and a position in it.  A call that throws LexerError
\* ends the sequence with a LEXER_ERROR entry that keeps the line and column.
RECURSIVE token_stream(_, _)
tokens_from(input, r) ==
  IF r.err # "none" THEN <<Token("LEXER_ERROR", <<>>, r.line, r.column)>>
  ELSE IF r.tok.type = "END_OF_INPUT" THEN <<r.tok>>
  ELSE <<r.tok>> \o token_stream(input, r.lx)

token_stream(input, lx) == tokens_from(input, next_token(input, lx))

\* The token the k-th call of next_token returns: END_OF_INPUT again and
\* again once the input is used up.
TokenAt(toks, k) == IF k > Len(toks) THEN toks[Len(toks)] ELSE toks[k]

\* Parser::peek: [err, tok], or the LexerError of the lexer.
peek(toks, k) ==
  LET tok == TokenAt(toks, k)
  IN  IF tok.type = "LEXER_ERROR" THEN ThrowAt("LexerError", tok.line, tok.column)
      ELSE [err |-> "none", tok |-> tok]

\* Parser::expect: [err, tok, k] with k the position after the token.
expect(toks, k, type) ==
  LET tok == TokenAt(toks, k)
  IN  IF tok.type = "LEXER_ERROR" THEN ThrowAt("LexerError", tok.line, tok.column)
      ELSE IF tok.type # type THEN ThrowAt("ParseError", tok.line, tok.column)
      ELSE [err |-> "none", tok |-> tok, k |-> k + 1]

RECURSIVE parse_grouping(_, _)
RECURSIVE parse_element(_, _)
RECURSIVE parse_more_elements(_, _, _)

\* Parser::parse_value with the rest of parse_element around it:
\* [err, elem, k] for the element named name with type tag type.
parse_value(toks, k, name, type) ==
  AndThen(peek(toks, k), LAMBDA p :
    IF p.tok.type = "STRING" THEN
      [err |-> "none", elem |-> StringElement(name, type, p.tok.value),
       k |-> k + 1]
    ELSE IF p.tok.type = "LBRACE" THEN
      AndThen(parse_grouping(toks, k), LAMBDA g :
        [err |-> "none", elem |-> GroupingElement(name, type, g.elements),
         k |-> g.k])
    ELSE ThrowAt("ParseError", p.tok.line, p.tok.column))

\* Parser::parse_element: NAME ':' '!' NAME value.
parse_element(toks, k) ==
  AndThen(expect(toks, k, "NAME"), LAMBDA name_tok :
  AndThen(expect(toks, name_tok.k, "COLON"), LAMBDA colon :
  AndThen(expect(toks, colon.k, "BANG"), LAMBDA bang :
  AndThen(expect(toks, bang.k, "NAME"), LAMBDA type_tok :
    parse_value(toks, type_tok.k, name_tok.tok.value, type_tok.tok.value)))))

\* A variant of parse_more_elements that wants an element after every
\* comma.
parse_more_elements_strict(toks, k, elements) ==
  AndThen(peek(toks, k), LAMBDA p :
    IF p.tok.type = "COMMA" THEN
      AndThen(parse_element(toks, k + 1), LAMBDA e :
        parse_more_elements(toks, e.k, Append(elements, e.elem)))
    ELSE AndThen(expect(toks, k, "RBRACE"), LAMBDA close :
           [err |-> "none", elements |-> elements, k |-> close.k]))

\* The while loop of parse_grouping and the closing expect:
\* [err, elements, k].
parse_more_elements(toks, k, elements) ==
  AndThen(peek(toks, k), LAMBDA p :
    IF p.tok.type = "COMMA" THEN
      AndThen(peek(toks, k + 1), LAMBDA q :
        IF q.tok.type = "RBRACE"
        THEN [err |-> "none", elements |-> elements, k |-> k + 2]
        ELSE AndThen(parse_element(toks, k + 1), LAMBDA e :
               parse_more_elements(toks, e.k, Append(elements, e.elem))))
    ELSE AndThen(expect(toks, k, "RBRACE"), LAMBDA close :
           [err |-> "none", elements |-> elements, k |-> close.k]))

\* Parser::parse_grouping: [err, elements, k].
parse_grouping(toks, k) ==
  AndThen(expect(toks, k, "LBRACE"), LAMBDA open :
  AndThen(peek(toks, open.k), LAMBDA p :
    IF p.tok.type = "RBRACE"
    THEN [err |-> "none", elements |-> <<>>, k |-> open.k + 1]
    ELSE AndThen(parse_element(toks, open.k), LAMBDA e :
           parse_more_elements(toks, e.k, <<e.elem>>))))

\* Parser::parse on the tokens of the input.
parse_tokens(toks) ==
  AndThen(parse_grouping(toks, 1), LAMBDA g :
  AndThen(peek(toks, g.k), LAMBDA tok :
    IF tok.tok.type # "END_OF_INPUT"
    THEN ThrowAt("ParseError", tok.tok.line, tok.tok.column)
    ELSE [err |-> "none", elements |-> g.elements]))

\* Parser(input).parse(): [err, elements], or [err, line, column].
parse(input) == parse_tokens(token_stream(input, NewLexer))

----------------------------------------------------------------------------
(* JSON values (nlohmann::ordered_json) *)

JNull == [kind |-> "null"]
JBool(b) == [kind |-> "bool", b |-> b]
JInt(i) == [kind |-> "int", i |-> i]
\* A double that is a multiple of one half, held as twice its value.
JFloat(twice) == [kind |-> "float", twice |-> twice]
JStr(s) == [kind |-> "str", s |-> s]
JList(items) == [kind |-> "list", items |-> items]
\* entries: a sequence of [key, val] with distinct keys, in insertion order.
JObj(entries) == [kind |-> "obj", entries |-> entries]

Entry(key, val) == [key |-> key, val |-> val]

is_primitive(j) == j.kind \in {"null", "bool", "int", "float", "str"}

\* obj[key] = val on an ordered_json object: the value of an existing key is
\* replaced where it stands, a new key is appended.
JsonSet(entries, key, val) ==
  IF \E k \in 1..Len(entries) : entries[k].key = key
  THEN [k \in 1..Len(entries) |->
          IF entries[k].key = key THEN Entry(key, val) ELSE entries[k]]
  ELSE Append(entries, Entry(key, val))

\* obj.contains(key)
JsonContains(entries, key) == \E k \in 1..Len(entries) : entries[k].key = key

----------------------------------------------------------------------------
(* The C++ library's number conversions *)

is_digit(c) == c >= Ord["0"] /\ c <= Ord["9"]

\* isspace in the "C" locale: space, \t, \n, \v, \f, \r.
is_space(c) == c = Ord[" "] \/ (c >= TAB /\ c <= CR)

\* Most decimal digits of a number the model computes with.
MaxDigits == 9

RECURSIVE ToDigits(_)
ToDigits(n) ==
  IF n < 10 THEN <<Ord["0"] + n>>
  ELSE Append(ToDigits(n \div 10), Ord["0"] + (n % 10))

\* std::to_string of an integer, and operator<< of a size_t.
to_string(n) == IF n < 0 THEN <<Ord["-"]>> \o ToDigits(0 - n) ELSE ToDigits(n)

RECURSIVE SkipSpace(_, _)
SkipSpace(s, k) ==
  IF k <= Len(s) /\ is_space(s[k]) THEN SkipSpace(s, k + 1) ELSE k

RECURSIVE SkipZeros(_, _)
SkipZeros(s, k) ==
  IF k <= Len(s) /\ s[k] = Ord["0"] THEN SkipZeros(s, k + 1) ELSE k

RECURSIVE DigitsEnd(_, _)
DigitsEnd(s, k) ==
  IF k <= Len(s) /\ is_digit(s[k]) THEN DigitsEnd(s, k + 1) ELSE k

RECURSIVE DigitsValue(_, _, _)
DigitsValue(s, from, to) ==
  IF from >= to THEN 0
  ELSE DigitsValue(s, from, to - 1) * 10 + (s[to - 1] - Ord["0"])

\* The digits of strtoll and strtoull in base 10 from index k1 on, after the
\* white space and the sign: k2 is the index after the last digit, k3 the
\* index after the leading zeros.  [any, neg, start, digits, val, end]: any
\* is FALSE when no digit was read, start the index after the sign, digits
\* the number of digits after leading zeros, val their value when
\* digits <= MaxDigits, end the index after the last digit.
ScanResult(s, neg, k1, k2, k3) ==
  LET first == IF k3 > k2 THEN k2 ELSE k3
  IN  [any |-> k2 > k1, neg |-> neg, start |-> k1, digits |-> k2 - first,
       val |-> IF k2 - first <= MaxDigits THEN DigitsValue(s, first, k2) ELSE 0,
       end |-> k2]

\* The optional sign at index k0 and the digits after it.
ScanSigned(s, k0, sign) ==
  ScanResult(s, sign = Ord["-"], IF sign = 0 THEN k0 ELSE k0 + 1,
             DigitsEnd(s, IF sign = 0 THEN k0 ELSE k0 + 1),
             SkipZeros(s, IF sign = 0 THEN k0 ELSE k0 + 1))

\* The sign character at index k0, 0 if there is none.
SignAt(s, k0) ==
  IF k0 <= Len(s) /\ (s[k0] = Ord["-"] \/ s[k0] = Ord["+"]) THEN s[k0] ELSE 0

ScanFrom(s, k0) == ScanSigned(s, k0, SignAt(s, k0))

\* The common part of strtoll and strtoull: leading white space, an
\* optional sign, then decimal digits; what follows the digits is left
\* unread.
ScanDecimal(s) == ScanFrom(s, SkipSpace(s, 1))

\* What std::stoll makes of the scanned number.  A signed 64-bit value has
\* at most 19 digits; the model computes with values of at most MaxDigits
\* digits and reports a longer one that may still fit 64 bits as
\* "unmodelled".
stoll_result(d) ==
  IF ~d.any THEN Throw("invalid_argument")
  ELSE IF d.digits > 19 THEN Throw("out_of_range")
  ELSE IF d.digits > MaxDigits THEN Throw("unmodelled")
  ELSE Ok(IF d.neg THEN 0 - d.val ELSE d.val)

\* std::stoll(value).
stoll(s) == stoll_result(ScanDecimal(s))

\* An index no array of the program can reach: what stoull gives for a
\* negated or very long number.
HugeIndex == 1000000000

\* What std::stoull makes of the scanned number: strtoull negates a number
\* written with '-' modulo 2^64.
stoull_result(d) ==
  IF ~d.any THEN Throw("invalid_argument")
  ELSE IF d.digits > 20 THEN Throw("out_of_range")
  ELSE IF d.digits > MaxDigits THEN Ok(HugeIndex)
  ELSE IF d.neg /\ d.val > 0 THEN Ok(HugeIndex)
  ELSE Ok(d.val)

\* std::stoull(value).
stoull(s) == stoull_result(ScanDecimal(s))

\* operator<< of a double that is twice/2, with precision max_digits10:
\* the integer part, then ".5" for an odd number of halves.
FormatDouble(twice) ==
  LET mag == IF twice < 0 THEN 0 - twice ELSE twice
  IN  (IF twice < 0 THEN <<Ord["-"]>> ELSE <<>>) \o ToDigits(mag \div 2)
      \o (IF mag % 2 = 1 THEN B(<<".", "5">>) ELSE <<>>)

\* What std::stod makes of the integer part d and the fraction that ends
\* before index fracEnd.  Only multiples of one half are values of the
\* model; any other literal (an exponent, another fraction, inf, nan, a
\* hexadecimal literal) is "unmodelled".
stod_result(s, d, hasDot, fracEnd) ==
  LET anyFrac == hasDot /\ fracEnd > d.end + 1
      fracZero == \A k \in (d.end + 1)..(fracEnd - 1) : s[k] = Ord["0"]
      fracHalf == /\ hasDot /\ fracEnd > d.end + 1
                  /\ s[d.end + 1] = Ord["5"]
                  /\ \A k \in (d.end + 2)..(fracEnd - 1) : s[k] = Ord["0"]
      special == \/ d.start <= Len(s) /\
                      s[d.start] \in {Ord["i"], Ord["I"], Ord["n"], Ord["N"]}
                 \/ d.end <= Len(s) /\ s[d.end] \in {Ord["x"], Ord["X"]}
  IN  IF special THEN Throw("unmodelled")
      ELSE IF ~d.any /\ ~(d.end = d.start /\ anyFrac)
      THEN Throw("invalid_argument")
      ELSE IF d.digits > MaxDigits - 1 THEN Throw("unmodelled")
      ELSE IF fracEnd <= Len(s) /\ s[fracEnd] \in {Ord["e"], Ord["E"]}
      THEN Throw("unmodelled")
      ELSE IF hasDot /\ ~fracZero /\ ~fracHalf THEN Throw("unmodelled")
      ELSE IF d.neg THEN Ok(0 - (2 * d.val) - (IF fracHalf THEN 1 ELSE 0))
      ELSE Ok(2 * d.val + (IF fracHalf THEN 1 ELSE 0))

\* The fraction after the integer part d: a '.' and digits.
stod_fraction(s, d, hasDot) ==
  stod_result(s, d, hasDot, IF hasDot THEN DigitsEnd(s, d.end + 1) ELSE d.end)

stod_scanned(s, d) ==
  stod_fraction(s, d, d.end <= Len(s) /\ s[d.end] = Ord["."])

\* std::stod(value) for decimal literals: white space, an optional sign,
\* digits and an optional fraction.
stod(s) == stod_scanned(s, ScanDecimal(s))

----------------------------------------------------------------------------
(* sisl_codec.cpp: encoding *)

\* The type tags and the two payloads of a bool.
TypeNull == B(<<"n", "u", "l", "l">>)
TypeBool == B(<<"b", "o", "o", "l">>)
TypeInt == B(<<"i", "n", "t">>)
TypeFloat == B(<<"f", "l", "o", "a", "t">>)
TypeStr == B(<<"s", "t", "r">>)
TypeObj == B(<<"o", "b", "j">>)
TypeList == B(<<"l", "i", "s", "t">>)
TextTrue == B(<<"t", "r", "u", "e">>)
TextFalse == B(<<"f", "a", "l", "s", "e">>)

Quoted(s) == <<Ord["\""]>> \o s \o <<Ord["\""]>>

CommaSpace == B(<<",", " ">>)
ColonSpace == B(<<":", " ">>)

RECURSIVE encode_value(_)
RECURSIVE encode_list_items(_, _)
RECURSIVE encode_entries(_, _)

\* The for loop over an array in get_type_and_value, from index idx - 1.
encode_list_items(items, idx) ==
  IF idx > Len(items) THEN <<>>
  ELSE (IF idx > 1 THEN CommaSpace ELSE <<>>)
       \o <<Ord["_"]>> \o to_string(idx - 1) \o ColonSpace
       \o encode_value(items[idx])
       \o encode_list_items(items, idx + 1)

\* A variant of encode_entries that separates the entries by a comma alone.
RECURSIVE encode_entries_bare_comma(_, _)
encode_entries_bare_comma(entries, k) ==
  IF k > Len(entries) THEN <<>>
  ELSE (IF k > 1 THEN <<Ord[","]>> ELSE <<>>)
       \o entries[k].key \o ColonSpace \o encode_value(entries[k].val)
       \o encode_entries_bare_comma(entries, k + 1)

\* The for loop over an object in get_type_and_value and in json_to_sisl:
\* the key is written as it is.
encode_entries(entries, k) ==
  IF k > Len(entries) THEN <<>>
  ELSE (IF k > 1 THEN CommaSpace ELSE <<>>)
       \o entries[k].key \o ColonSpace \o encode_value(entries[k].val)
       \o encode_entries(entries, k + 1)

\* The float case of get_type_and_value: ".0" is added to a text that has
\* no '.', 'e' or 'E'.
float_text(str) ==
  IF \E k \in 1..Len(str) : str[k] \in {Ord["."], Ord["e"], Ord["E"]}
  THEN str ELSE str \o B(<<".", "0">>)

\* get_type_and_value: <<type, value>>.
get_type_and_value(j) ==
  IF j.kind = "null" THEN <<TypeNull, Quoted(<<>>)>>
  ELSE IF j.kind = "bool" THEN
    <<TypeBool,
      Quoted(IF j.b THEN TextTrue
             ELSE TextFalse)>>
  ELSE IF j.kind = "int" THEN <<TypeInt, Quoted(to_string(j.i))>>
  ELSE IF j.kind = "float" THEN
    <<TypeFloat, Quoted(float_text(FormatDouble(j.twice)))>>
  ELSE IF j.kind = "str" THEN
    <<TypeStr, Quoted(escape_sisl_string(j.s))>>
  ELSE IF j.kind = "list" THEN
    <<TypeList,
      <<Ord["{"]>> \o encode_list_items(j.items, 1) \o <<Ord["}"]>> >>
  ELSE
    <<TypeObj,
      <<Ord["{"]>> \o encode_entries(j.entries, 1) \o <<Ord["}"]>> >>

\* "!" + type + " " + value of the pair tv.
encode_pair(tv) == <<Ord["!"]>> \o tv[1] \o <<Ord[" "]>> \o tv[2]

encode_value(j) == encode_pair(get_type_and_value(j))

\* A variant of json_to_sisl without the test of the top level: a value that
\* is no object is written as an empty grouping.
json_to_sisl_any(j) ==
  Ok(<<Ord["{"]>>
     \o (IF j.kind = "obj" THEN encode_entries(j.entries, 1) ELSE <<>>)
     \o <<Ord["}"]>>)

\* json_to_sisl: [err, val] with val the SISL bytes.
json_to_sisl(j) ==
  IF j.kind # "obj" THEN Throw("CodecError")
  ELSE Ok(<<Ord["{"]>> \o encode_entries(j.entries, 1) \o <<Ord["}"]>>)

dumps(j) == json_to_sisl(j)

----------------------------------------------------------------------------
(* sisl_codec.cpp: decoding *)

\* An exception of kind from that is caught and thrown again as kind to.
Rethrow(r, from, to) == IF r.err \in from THEN Throw(to) ELSE r

\* The exceptions of std::stoll, std::stoull and std::stod.
StdNumberErrors == {"invalid_argument", "out_of_range"}

\* decode_string_value after unescape_sisl_string gave value:
\* [err, val] with val the JSON value.
decode_unescaped(type, value) ==
  IF type = TypeNull THEN
    IF value # <<>> THEN Throw("CodecError") ELSE Ok(JNull)
  ELSE IF type = TypeBool THEN
    IF value = TextTrue THEN Ok(JBool(TRUE))
    ELSE IF value = TextFalse THEN Ok(JBool(FALSE))
    ELSE Throw("CodecError")
  ELSE IF type = TypeInt THEN
    AndThen(Rethrow(stoll(value), StdNumberErrors, "CodecError"),
            LAMBDA n : Ok(JInt(n.val)))
  ELSE IF type = TypeFloat THEN
    AndThen(Rethrow(stod(value), StdNumberErrors, "CodecError"),
            LAMBDA f : Ok(JFloat(f.val)))
  ELSE IF type = TypeStr THEN Ok(JStr(value))
  ELSE Throw("CodecError")

decode_string_value(type, raw_value) ==
  AndThen(unescape_sisl_string(raw_value), LAMBDA u :
    decode_unescaped(type, u.val))

\* std::sort of the (index, value) pairs by index.  The program's lists are
\* short, and for fewer than 17 elements the library sorts by insertion,
\* which keeps pairs of equal index in their order.
RECURSIVE SortByIndex(_)
SortByIndex(items) ==
  IF items = <<>> THEN <<>>
  ELSE LET rest == SortByIndex(SubSeq(items, 1, Len(items) - 1))
           x == items[Len(items)]
           n == Cardinality({k \in 1..Len(rest) : rest[k].index <= x.index})
       IN  SubSeq(rest, 1, n) \o <<x>> \o SubSeq(rest, n + 1, Len(rest))

\* The loop that builds the array from the sorted pairs, filling gaps with
\* null.  An index from HugeIndex up asks for more elements than memory
\* holds: push_back ends in std::bad_alloc.
RECURSIVE fill_array(_, _, _)
fill_array(items, k, arr) ==
  IF k > Len(items) THEN Ok(arr)
  ELSE IF items[k].index >= HugeIndex THEN Throw("bad_alloc")
  ELSE LET gap == IF Len(arr) < items[k].index
                  THEN [n \in 1..(items[k].index - Len(arr)) |-> JNull]
                  ELSE <<>>
       IN  fill_array(items, k + 1, (arr \o gap) \o <<items[k].val>>)

RECURSIVE decode_element(_)
RECURSIVE decode_obj_elements(_, _, _)
RECURSIVE decode_list_elements(_, _, _)

\* The loop of decode_grouping_value for "obj" and of sisl_to_json:
\* obj[elem.name] = decode_element(elem) for every element in order.
decode_obj_elements(elements, k, entries) ==
  IF k > Len(elements) THEN Ok(JObj(entries))
  ELSE AndThen(decode_element(elements[k]), LAMBDA d :
         decode_obj_elements(elements, k + 1,
                             JsonSet(entries, elements[k].name, d.val)))

\* The index a list element is named by: the name after its first byte.
index_of_name(name) == stoull(SubSeq(name, 2, Len(name)))

\* The first loop of decode_grouping_value for "list": the (index, value)
\* pairs in the order of the grouping.
decode_list_elements(elements, k, items) ==
  IF k > Len(elements) THEN Ok(items)
  ELSE IF elements[k].name = <<>> \/ elements[k].name[1] # Ord["_"]
  THEN Throw("CodecError")
  ELSE AndThen(Rethrow(index_of_name(elements[k].name), StdNumberErrors,
                       "CodecError"), LAMBDA idx :
       AndThen(decode_element(elements[k]), LAMBDA d :
         decode_list_elements(elements, k + 1,
                              Append(items, [index |-> idx.val, val |-> d.val]))))

decode_grouping_value(type, elements) ==
  IF type = TypeObj THEN decode_obj_elements(elements, 1, <<>>)
  ELSE IF type = TypeList THEN
    AndThen(decode_list_elements(elements, 1, <<>>), LAMBDA items :
    AndThen(fill_array(SortByIndex(items.val), 1, <<>>), LAMBDA arr :
      Ok(JList(arr.val))))
  ELSE Throw("CodecError")

decode_element(elem) ==
  IF elem.is_string THEN decode_string_value(elem.type, elem.content)
  ELSE decode_grouping_value(elem.type, elem.elements)

sisl_to_json(elements) == decode_obj_elements(elements, 1, <<>>)

\* loads: [err, val]; a LexerError or ParseError keeps its line and column.
loads(sisl_str) ==
  AndThen(parse(sisl_str), LAMBDA g : sisl_to_json(g.elements))

----------------------------------------------------------------------------
(* merge.cpp *)

\* A MergeableValue.  list_entries stands for the std::map from index to
\* node: a sequence of [index, val] in ascending order of index, each index
\* once.
MObject(obj_entries) ==
  [type |-> "OBJECT", obj_entries |-> obj_entries, list_entries |-> <<>>,
   primitive |-> JNull]

MList(list_entries) ==
  [type |-> "LIST", obj_entries |-> <<>>, list_entries |-> list_entries,
   primitive |-> JNull]

MPrimitive(primitive) ==
  [type |-> "PRIMITIVE", obj_entries |-> <<>>, list_entries |-> <<>>,
   primitive |-> primitive]

\* list_entries.find(idx) != end()
MapHas(m, idx) == \E k \in 1..Len(m) : m[k].index = idx

MapGet(m, idx) == m[CHOOSE k \in 1..Len(m) : m[k].index = idx].val

\* list_entries[idx] = val
MapSet(m, idx, val) ==
  IF MapHas(m, idx)
  THEN [k \in 1..Len(m) |->
          IF m[k].index = idx THEN [index |-> idx, val |-> val] ELSE m[k]]
  ELSE LET n == Cardinality({k \in 1..Len(m) : m[k].index < idx})
       IN  SubSeq(m, 1, n) \o <<[index |-> idx, val |-> val]>>
           \o SubSeq(m, n + 1, Len(m))

RECURSIVE from_element(_)
RECURSIVE from_obj_elements(_, _, _)
RECURSIVE from_list_elements(_, _, _)

\* The loop of from_element for "obj" and of from_grouping_as_object: every
\* element is appended, a repeated name included.
from_obj_elements(elements, k, entries) ==
  IF k > Len(elements) THEN Ok(MObject(entries))
  ELSE AndThen(from_element(elements[k]), LAMBDA m :
         from_obj_elements(elements, k + 1,
                           Append(entries, Entry(elements[k].name, m.val))))

\* The loop of from_element for "list".  std::stoull is not guarded here: its
\* exception leaves from_element as it is.
from_list_elements(elements, k, map) ==
  IF k > Len(elements) THEN Ok(MList(map))
  ELSE IF elements[k].name = <<>> \/ elements[k].name[1] # Ord["_"]
  THEN Throw("CodecError")
  ELSE AndThen(index_of_name(elements[k].name), LAMBDA idx :
       AndThen(from_element(elements[k]), LAMBDA m :
         from_list_elements(elements, k + 1, MapSet(map, idx.val, m.val))))

\* The string case of from_element after unescape_sisl_string gave value.
\* std::stoll and std::stod are not guarded here.
from_unescaped(type, value) ==
  IF type = TypeNull THEN Ok(MPrimitive(JNull))
  ELSE IF type = TypeBool THEN
    Ok(MPrimitive(JBool(value = TextTrue)))
  ELSE IF type = TypeInt THEN
    AndThen(stoll(value), LAMBDA n : Ok(MPrimitive(JInt(n.val))))
  ELSE IF type = TypeFloat THEN
    AndThen(stod(value), LAMBDA f : Ok(MPrimitive(JFloat(f.val))))
  ELSE IF type = TypeStr THEN Ok(MPrimitive(JStr(value)))
  ELSE Throw("CodecError")

from_element(elem) ==
  IF elem.is_string THEN
    AndThen(unescape_sisl_string(elem.content), LAMBDA u :
      from_unescaped(elem.type, u.val))
  ELSE IF elem.type = TypeObj
    THEN from_obj_elements(elem.elements, 1, <<>>)
  ELSE IF elem.type = TypeList
    THEN from_list_elements(elem.elements, 1, <<>>)
  ELSE Throw("CodecError")

from_grouping_as_object(elements) == from_obj_elements(elements, 1, <<>>)

\* The position of the first entry with this key, 0 when there is none
\* (std::find_if over obj_entries).
FindKey(entries, key) ==
  IF \E k \in 1..Len(entries) : entries[k].key = key
  THEN CHOOSE k \in 1..Len(entries) :
         /\ entries[k].key = key
         /\ \A h \in 1..(k - 1) : entries[h].key # key
  ELSE 0

RECURSIVE merge_values(_, _)
RECURSIVE merge_obj_entries(_, _, _)
RECURSIVE merge_list_entries(_, _, _)

\* A variant of merge_obj_entries that puts a new key in front.
RECURSIVE merge_obj_entries_prepend(_, _, _)
merge_obj_entries_prepend(result, b_entries, k) ==
  IF k > Len(b_entries) THEN Ok(result)
  ELSE IF FindKey(result, b_entries[k].key) # 0 THEN
    AndThen(merge_values(result[FindKey(result, b_entries[k].key)].val,
                         b_entries[k].val), LAMBDA m :
      merge_obj_entries_prepend(
        [result EXCEPT ![FindKey(result, b_entries[k].key)] =
                         Entry(b_entries[k].key, m.val)],
        b_entries, k + 1))
  ELSE merge_obj_entries_prepend(<<b_entries[k]>> \o result, b_entries, k + 1)

\* The OBJECT case of merge_values: the loop over the entries of b, result
\* holding the entries merged so far.
merge_obj_entries(result, b_entries, k) ==
  IF k > Len(b_entries) THEN Ok(result)
  ELSE IF FindKey(result, b_entries[k].key) # 0 THEN
    AndThen(merge_values(result[FindKey(result, b_entries[k].key)].val,
                         b_entries[k].val), LAMBDA m :
      merge_obj_entries(
        [result EXCEPT ![FindKey(result, b_entries[k].key)] =
                         Entry(b_entries[k].key, m.val)],
        b_entries, k + 1))
  ELSE merge_obj_entries(Append(result, b_entries[k]), b_entries, k + 1)

\* A variant of merge_list_entries that puts the node of b at an index
\* both lists hold, without merging it with the node that was there.
RECURSIVE merge_list_entries_overwrite(_, _, _)
merge_list_entries_overwrite(result, b_entries, k) ==
  IF k > Len(b_entries) THEN Ok(result)
  ELSE merge_list_entries_overwrite(
         MapSet(result, b_entries[k].index, b_entries[k].val), b_entries, k + 1)

\* The LIST case of merge_values: the loop over the entries of b.
merge_list_entries(result, b_entries, k) ==
  IF k > Len(b_entries) THEN Ok(result)
  ELSE IF MapHas(result, b_entries[k].index) THEN
    AndThen(merge_values(MapGet(result, b_entries[k].index), b_entries[k].val),
            LAMBDA m :
      merge_list_entries(MapSet(result, b_entries[k].index, m.val),
                         b_entries, k + 1))
  ELSE merge_list_entries(MapSet(result, b_entries[k].index, b_entries[k].val),
                          b_entries, k + 1)

\* A variant of merge_primitive that keeps the primitive of a.
merge_primitive_keep_left(a, b) == MPrimitive(a.primitive)

\* The PRIMITIVE case of merge_values.
merge_primitive(a, b) == MPrimitive(b.primitive)

\* A variant of kinds_conflict that lets a list and an object pass as alike.
kinds_conflict_containers_alike(a, b) ==
  (a.type = "PRIMITIVE") # (b.type = "PRIMITIVE")

\* The test at the head of merge_values.
kinds_conflict(a, b) == a.type # b.type

merge_values(a, b) ==
  IF kinds_conflict(a, b) THEN Throw("CodecError")
  ELSE IF a.type = "OBJECT" THEN
    AndThen(merge_obj_entries(a.obj_entries, b.obj_entries, 1), LAMBDA r :
      Ok(MObject(r.val)))
  ELSE IF a.type = "LIST" THEN
    AndThen(merge_list_entries(a.list_entries, b.list_entries, 1), LAMBDA r :
      Ok(MList(r.val)))
  ELSE Ok(merge_primitive(a, b))

RECURSIVE to_json(_)
RECURSIVE to_json_entries(_, _, _)
RECURSIVE to_json_items(_, _, _)

\* The OBJECT case of to_json: obj[entry.first] = to_json(entry.second).
to_json_entries(obj_entries, k, entries) ==
  IF k > Len(obj_entries) THEN Ok(JObj(entries))
  ELSE AndThen(to_json(obj_entries[k].val), LAMBDA v :
         to_json_entries(obj_entries, k + 1,
                         JsonSet(entries, obj_entries[k].key, v.val)))

\* The LIST case of to_json: positions 0..max_idx, null where the map has
\* no entry; i is the next position.
to_json_items(list_entries, i, arr) ==
  IF i > list_entries[Len(list_entries)].index THEN Ok(JList(arr))
  ELSE IF MapHas(list_entries, i) THEN
    AndThen(to_json(MapGet(list_entries, i)), LAMBDA v :
      to_json_items(list_entries, i + 1, Append(arr, v.val)))
  ELSE to_json_items(list_entries, i + 1, Append(arr, JNull))

\* to_json: [err, val].  A list whose greatest index is HugeIndex or more
\* asks for more elements than memory holds.
to_json(mv) ==
  IF mv.type = "OBJECT" THEN to_json_entries(mv.obj_entries, 1, <<>>)
  ELSE IF mv.type = "LIST" THEN
    IF mv.list_entries = <<>> THEN Ok(JList(<<>>))
    ELSE IF mv.list_entries[Len(mv.list_entries)].index >= HugeIndex
    THEN Throw("bad_alloc")
    ELSE to_json_items(mv.list_entries, 0, <<>>)
  ELSE Ok(mv.primitive)

\* Parser(s).parse() followed by from_grouping_as_object.
parse_as_object(sisl_str) ==
  AndThen(parse(sisl_str), LAMBDA g : from_grouping_as_object(g.elements))

\* The for loop of merge_sisl_strings from the string at position i.
RECURSIVE merge_remaining(_, _, _)
merge_remaining(sisl_strings, i, result) ==
  IF i > Len(sisl_strings) THEN Ok(result)
  ELSE AndThen(parse_as_object(sisl_strings[i]), LAMBDA parsed :
       AndThen(merge_values(result, parsed.val), LAMBDA m :
         merge_remaining(sisl_strings, i + 1, m.val)))

\* merge_sisl_strings: [err, val] with val the merged JSON value.
merge_sisl_strings(sisl_strings) ==
  IF sisl_strings = <<>> THEN Ok(JObj(<<>>))
  ELSE AndThen(parse_as_object(sisl_strings[1]), LAMBDA first :
       AndThen(merge_remaining(sisl_strings, 2, first.val), LAMBDA r :
         to_json(r.val)))

----------------------------------------------------------------------------
(* split.cpp *)

KeyComponent(k) == [is_index |-> FALSE, key |-> k, index |-> 0]
IndexComponent(i) == [is_index |-> TRUE, key |-> <<>>, index |-> i]

Leaf(path, value) == [path |-> path, value |-> value]

RECURSIVE collect_leaves(_, _)
RECURSIVE collect_object_leaves(_, _, _)
RECURSIVE collect_array_leaves(_, _, _)

collect_object_leaves(entries, k, current_path) ==
  IF k > Len(entries) THEN <<>>
  ELSE collect_leaves(entries[k].val,
                      Append(current_path, KeyComponent(entries[k].key)))
       \o collect_object_leaves(entries, k + 1, current_path)

collect_array_leaves(items, k, current_path) ==
  IF k > Len(items) THEN <<>>
  ELSE collect_leaves(items[k], Append(current_path, IndexComponent(k - 1)))
       \o collect_array_leaves(items, k + 1, current_path)

\* collect_leaves: the leaves it appends, in order.
collect_leaves(j, current_path) ==
  IF j.kind = "obj" THEN collect_object_leaves(j.entries, 1, current_path)
  ELSE IF j.kind = "list" THEN collect_array_leaves(j.items, 1, current_path)
  ELSE <<Leaf(current_path, j)>>

\* The loop of build_fragment over the path from its last component to
\* its first; k is the component to wrap with.
RECURSIVE wrap_path(_, _, _)
wrap_path(path, k, cur) ==
  IF k = 0 THEN cur
  ELSE IF path[k].is_index
  THEN wrap_path(path, k - 1,
                 JObj(<<Entry(<<Ord["_"]>> \o to_string(path[k].index), cur)>>))
  ELSE wrap_path(path, k - 1, JObj(<<Entry(path[k].key, cur)>>))

build_fragment(leaf) ==
  IF leaf.path = <<>> THEN leaf.value
  ELSE wrap_path(leaf.path, Len(leaf.path), leaf.value)

\* The first loop of split_dumps: the fragment of every leaf with its
\* encoding, as [first, second].
build_fragments(leaves) ==
  [k \in 1..Len(leaves) |->
     [first |-> build_fragment(leaves[k]),
      second |-> dumps(build_fragment(leaves[k])).val]]

\* The for loop that copies the top-level entries of next_frag into
\* test_combined, stopping at the first key that is already there.
RECURSIVE shallow_merge(_, _, _)
shallow_merge(test_combined, next_entries, k) ==
  IF k > Len(next_entries) THEN test_combined
  ELSE IF JsonContains(test_combined, next_entries[k].key) THEN test_combined
  ELSE shallow_merge(JsonSet(test_combined, next_entries[k].key,
                             next_entries[k].val),
                     next_entries, k + 1)


\* The inner while loop of split_dumps from fragment i, with the
\* accumulator combined and its encoding: [i, current_encoded] at the break.
\* test_combined is encoded and measured whether or not the shallow merge
\* stopped at a key that combined already holds.
RECURSIVE pack_inner(_, _, _, _, _)
pack_inner(fragments, i, combined, current_encoded, max_length) ==
  IF i < Len(fragments) THEN
    With(shallow_merge(combined, fragments[i + 1].first.entries, 1),
         LAMBDA test_combined :
    With(dumps(JObj(test_combined)).val, LAMBDA test_encoded :
      IF Len(test_encoded) <= max_length
      THEN pack_inner(fragments, i + 1, test_combined, test_encoded, max_length)
      ELSE [i |-> i, current_encoded |-> current_encoded]))
  ELSE [i |-> i, current_encoded |-> current_encoded]

\* The outer while loop of split_dumps from fragment i: the vector result.
RECURSIVE pack_outer(_, _, _, _)
pack_outer(fragments, i, result, max_length) ==
  IF i < Len(fragments) THEN
    With(pack_inner(fragments, i + 1, fragments[i + 1].first.entries,
                    fragments[i + 1].second, max_length),
         LAMBDA packed :
      pack_outer(fragments, packed.i, Append(result, packed.current_encoded),
                 max_length))
  ELSE result

\* A variant of split_dumps that does not compare the encoding of a
\* fragment with max_length.
split_dumps_unchecked(j, max_length) ==
  AndThen(dumps(j), LAMBDA full :
    IF Len(full.val) <= max_length THEN Ok(<<>>)
    ELSE With(collect_leaves(j, <<>>), LAMBDA leaves :
      IF leaves = <<>> THEN Ok(<<B(<<"{", "}">>)>>)
      ELSE Ok(pack_outer(build_fragments(leaves), 0, <<>>, max_length))))

\* A variant of split_dumps that splits a value whose encoding is exactly
\* max_length bytes long.
split_dumps_below(j, max_length) ==
  AndThen(dumps(j), LAMBDA full :
    IF Len(full.val) < max_length THEN Ok(<<>>)
    ELSE With(collect_leaves(j, <<>>), LAMBDA leaves :
      IF leaves = <<>> THEN Ok(<<B(<<"{", "}">>)>>)
      ELSE With(build_fragments(leaves), LAMBDA fragments :
        IF \E k \in 1..Len(fragments) : Len(fragments[k].second) > max_length
        THEN Throw("CodecError")
        ELSE Ok(pack_outer(fragments, 0, <<>>, max_length)))))

\* split_dumps: [err, val] with val the vector of SISL strings.
split_dumps(j, max_length) ==
  AndThen(dumps(j), LAMBDA full :
    IF Len(full.val) <= max_length THEN Ok(<<>>)
    ELSE With(collect_leaves(j, <<>>), LAMBDA leaves :
      IF leaves = <<>> THEN Ok(<<B(<<"{", "}">>)>>)
      ELSE With(build_fragments(leaves), LAMBDA fragments :
        IF \E k \in 1..Len(fragments) : Len(fragments[k].second) > max_length
        THEN Throw("CodecError")
        ELSE Ok(pack_outer(fragments, 0, <<>>, max_length)))))

----------------------------------------------------------------------------
(* json::dump, the text main.cpp writes for a JSON value *)

\* TRUE iff byte k of s exists and lies in lo..hi.
ByteIn(s, k, lo, hi) == k <= Len(s) /\ s[k] >= lo /\ s[k] <= hi

\* The length of the well-formed UTF-8 sequence that starts at byte k of s,
\* 0 if none starts there.
utf8_sequence(s, k) ==
  IF s[k] <= 127 THEN 1
  ELSE IF ByteIn(s, k, 194, 223) /\ ByteIn(s, k + 1, 128, 191) THEN 2
  ELSE IF \/ s[k] = 224 /\ ByteIn(s, k + 1, 160, 191) /\ ByteIn(s, k + 2, 128, 191)
          \/ /\ ByteIn(s, k, 225, 236) \/ ByteIn(s, k, 238, 239)
             /\ ByteIn(s, k + 1, 128, 191) /\ ByteIn(s, k + 2, 128, 191)
          \/ s[k] = 237 /\ ByteIn(s, k + 1, 128, 159) /\ ByteIn(s, k + 2, 128, 191)
  THEN 3
  ELSE IF /\ \/ s[k] = 240 /\ ByteIn(s, k + 1, 144, 191)
             \/ ByteIn(s, k, 241, 243) /\ ByteIn(s, k + 1, 128, 191)
             \/ s[k] = 244 /\ ByteIn(s, k + 1, 128, 143)
          /\ ByteIn(s, k + 2, 128, 191) /\ ByteIn(s, k + 3, 128, 191)
  THEN 4
  ELSE 0

\* TRUE iff s from byte k on is well-formed UTF-8; dump throws
\* json::type_error for a string that is not.
RECURSIVE is_utf8(_, _)
is_utf8(s, k) ==
  IF k > Len(s) THEN TRUE
  ELSE With(utf8_sequence(s, k), LAMBDA n : n > 0 /\ is_utf8(s, k + n))

\* One byte of a string as dump writes it.
dump_byte(c) ==
  IF c = Ord["\""] THEN B(<<"\\", "\"">>)
  ELSE IF c = Ord["\\"] THEN B(<<"\\", "\\">>)
  ELSE IF c = LF - 2 THEN B(<<"\\", "b">>)
  ELSE IF c = TAB THEN B(<<"\\", "t">>)
  ELSE IF c = LF THEN B(<<"\\", "n">>)
  ELSE IF c = LF + 2 THEN B(<<"\\", "f">>)
  ELSE IF c = CR THEN B(<<"\\", "r">>)
  ELSE IF c < 32
  THEN B(<<"\\", "u", "0", "0">>) \o <<HexChar(c \div 16), HexChar(c % 16)>>
  ELSE <<c>>

RECURSIVE dump_bytes(_)
dump_bytes(s) ==
  IF s = <<>> THEN <<>> ELSE dump_byte(Head(s)) \o dump_bytes(Tail(s))

\* A string between quotes: [err, val].
dump_string(s) ==
  IF is_utf8(s, 1) THEN Ok(Quoted(dump_bytes(s))) ELSE Throw("type_error")

RECURSIVE dump(_)
RECURSIVE dump_items(_, _, _)
RECURSIVE dump_entries(_, _, _)

\* The elements of an array from element k on, text holding what is written.
dump_items(items, k, text) ==
  IF k > Len(items) THEN Ok(text \o <<Ord["]"]>>)
  ELSE AndThen(dump(items[k]), LAMBDA v :
         dump_items(items, k + 1,
                    text \o (IF k > 1 THEN <<Ord[","]>> ELSE <<>>) \o v.val))

\* The members of an object from member k on.
dump_entries(entries, k, text) ==
  IF k > Len(entries) THEN Ok(text \o <<Ord["}"]>>)
  ELSE AndThen(dump_string(entries[k].key), LAMBDA key :
       AndThen(dump(entries[k].val), LAMBDA v :
         dump_entries(entries, k + 1,
                      text \o (IF k > 1 THEN <<Ord[","]>> ELSE <<>>)
                           \o key.val \o <<Ord[":"]>> \o v.val)))

\* j.dump() with its default arguments: [err, val], the compact text.  A
\* double that is a multiple of one half is written as operator<< writes it.
dump(j) ==
  IF j.kind = "null" THEN Ok(TypeNull)
  ELSE IF j.kind = "bool" THEN Ok(IF j.b THEN TextTrue ELSE TextFalse)
  ELSE IF j.kind = "int" THEN Ok(to_string(j.i))
  ELSE IF j.kind = "float" THEN Ok(float_text(FormatDouble(j.twice)))
  ELSE IF j.kind = "str" THEN dump_string(j.s)
  ELSE IF j.kind = "list" THEN dump_items(j.items, 1, <<Ord["["]>>)
  ELSE dump_entries(j.entries, 1, <<Ord["{"]>>)

----------------------------------------------------------------------------
(* State *)

VARIABLES
  pc,               \* the step the operation under check has reached
  raw,              \* escape codec: the bytes given to escape_sisl_string
  escaped,          \* escape codec: escape_sisl_string(raw)
  unescaped,        \* escape codec: unescape_sisl_string(escaped), [err, val]
  v1, v2,           \* value codec: two JSON values
  enc1, enc2,       \* value codec: dumps(v1) and dumps(v2), [err, val]
  dec1,             \* value codec: loads of enc1, [err, val]
  j,                \* split: the value given to split_dumps
  max_length,       \* split: the byte budget
  parts,            \* split: what split_dumps returned, [err, val]
  sisl_strings,     \* merge: the strings given to merge_sisl_strings
  i,                \* merge: the loop index of merge_sisl_strings;
                    \* packing: the index i of the loops of split_dumps
  result,           \* merge: the MergeableValue merged so far;
                    \* packing: the vector result of split_dumps
  parsed,           \* merge: the MergeableValue of sisl_strings[i]
  merged,           \* merge: what merge_sisl_strings returned, [err, val]
  regrouped,        \* merge: the same fragments merged in another grouping
  mode,             \* front end: "dumps" or "loads"
  input,            \* front end: the text on standard input, by its form
  opt_max_length,   \* front end: the std::optional of --max-length
  stdout,           \* front end: the bytes written to std::cout
  stderr,           \* front end: the head of the message on std::cerr
  rc,               \* front end: the exit code
  target,           \* front end: the file named by --output, [exists, content]
  tmp_file,         \* front end: the file at output_file + ".tmp"
  fragments,        \* packing: the pairs (fragment, encoding) of split_dumps
  combined,         \* packing: the accumulator of the inner loop
  current_encoded,  \* packing: the encoding of the accumulator
  input_,           \* lexer: the bytes the lexer reads
  lexer_,           \* lexer: pos_, line_, column_, has_peeked_, peeked_token_
  tok,              \* lexer: the call made last and what it gave
  tokens,           \* lexer: the tokens next_token returned, in order
  grouping          \* parser: what Parser::parse gave, [err, val]

escapeVars == <<raw, escaped, unescaped>>
codecVars == <<v1, v2, enc1, enc2, dec1>>
splitVars == <<j, max_length, parts>>
mergeVars == <<sisl_strings, i, result, parsed, merged, regrouped>>
cliVars ==
  <<mode, input, opt_max_length, stdout, stderr, rc, target, tmp_file>>

packVars == <<fragments, combined, current_encoded>>
lexVars == <<input_, lexer_, tok, tokens, grouping>>

vars ==
  <<pc, escapeVars, codecVars, splitVars, mergeVars, cliVars, packVars,
    lexVars>>

\* The values of the variables an operation does not use.
EscapeIdle == raw = <<>> /\ escaped = <<>> /\ unescaped = Ok(<<>>)

CodecIdle ==
  /\ v1 = JNull /\ v2 = JNull
  /\ enc1 = Ok(<<>>) /\ enc2 = Ok(<<>>) /\ dec1 = Ok(JNull)

SplitIdle == j = JNull /\ max_length = 0 /\ parts = Ok(<<>>)

MergeIdle ==
  /\ sisl_strings = <<>> /\ i = 0
  /\ result = MObject(<<>>) /\ parsed = MObject(<<>>) /\ merged = Ok(JNull)
  /\ regrouped = Ok(JNull)

\* A path of the file system with no file, and one with a file.
NoFile == [exists |-> FALSE, content |-> <<>>]
FileOf(content) == [exists |-> TRUE, content |-> content]

CliIdle ==
  /\ mode = "" /\ input = [form |-> "none"]
  /\ opt_max_length = [has_value |-> FALSE, value |-> 0]
  /\ stdout = <<>> /\ stderr = "" /\ rc = 0
  /\ target = NoFile /\ tmp_file = NoFile

PackIdle == fragments = <<>> /\ combined = <<>> /\ current_encoded = <<>>

LexIdle ==
  /\ input_ = <<>> /\ lexer_ = NewLexer
  /\ tok = [op |-> "none", n |-> 0, err |-> "none", tok |-> NoToken]
  /\ tokens = <<>> /\ grouping = Ok(<<>>)

RECURSIVE SeqsUpTo(_, _)
SeqsUpTo(S, n) ==
  IF n = 0 THEN {<<>>}
  ELSE LET shorter == SeqsUpTo(S, n - 1)
       IN  shorter \cup {Append(s, c) : s \in shorter, c \in S}

\* The objects of at most n entries with distinct keys from keys and values
\* from members, in every order of the keys.
ObjectsOver(keys, members, n) ==
  {JObj(es) : es \in
     {s \in SeqsUpTo({Entry(k, m) : k \in keys, m \in members}, n) :
        \A a, b \in 1..Len(s) : a # b => s[a].key # s[b].key}}

----------------------------------------------------------------------------
(* The escape codec applied to a byte string *)

\* Longest byte string given to the escape codec.
MaxRawLen == 3

\* Bytes of every class the escape codec distinguishes: the five named
\* escapes, letters that select an escape after a backslash, hex digits,
\* plain printable bytes, control bytes and bytes above 0x7E.
RawBytes ==
  {Ord["\""], Ord["\\"], LF, CR, TAB, Ord["n"], Ord["x"], Ord["u"], Ord["4"],
   Ord[" "], Ord["~"], 0, 127, 128, 255}

InitEscape ==
  /\ pc = "start"
  /\ raw \in SeqsUpTo(RawBytes, MaxRawLen)
  /\ escaped = <<>>
  /\ unescaped = Ok(<<>>)
  /\ CodecIdle /\ SplitIdle /\ MergeIdle /\ CliIdle
  /\ PackIdle /\ LexIdle

Escape ==
  /\ pc = "start"
  /\ escaped' = escape_sisl_string(raw)
  /\ pc' = "escaped"
  /\ UNCHANGED <<raw, unescaped, codecVars, splitVars, mergeVars, cliVars>>
  /\ UNCHANGED <<packVars, lexVars>>

Unescape ==
  /\ pc = "escaped"
  /\ unescaped' = unescape_sisl_string(escaped)
  /\ pc' = "unescaped"
  /\ UNCHANGED <<raw, escaped, codecVars, splitVars, mergeVars, cliVars>>
  /\ UNCHANGED <<packVars, lexVars>>

NextEscape == Escape \/ Unescape

SpecEscape == InitEscape /\ [][NextEscape]_vars

----------------------------------------------------------------------------
(* dumps and loads applied to JSON values *)

\* Most entries of a top-level object given to dumps.
MaxEntries == 2

KeyA == B(<<"a">>)
KeyB == B(<<"b">>)

\* A key that is no SISL name: it holds the text of a whole entry.
KeyWithEntryText ==
  B(<<"a", ":", " ", "!", "n", "u", "l", "l", " ", "\"", "\"", ",", " ", "b">>)

\* A key with a space in it.
KeyWithSpace == B(<<"a", " ", "b">>)

CodecMembers ==
  {JNull, JBool(TRUE), JInt(1), JInt(0 - 20), JFloat(3), JFloat(4),
   JStr(<<Ord["\""], LF, 200>>),
   JList(<<>>), JList(<<JInt(1), JNull>>),
   JObj(<<>>), JObj(<<Entry(KeyB, JStr(B(<<"x">>)))>>)}

CodecValues ==
  ObjectsOver({KeyA, KeyB, KeyWithEntryText, KeyWithSpace}, CodecMembers,
              MaxEntries)

\* The values dumps(v1) is compared with.
CodecOthers == ObjectsOver({KeyA, KeyB}, {JNull, JInt(1)}, MaxEntries)

InitCodec ==
  /\ pc = "start"
  /\ v1 \in CodecValues
  /\ v2 \in CodecOthers
  /\ enc1 = Ok(<<>>) /\ enc2 = Ok(<<>>) /\ dec1 = Ok(JNull)
  /\ EscapeIdle /\ SplitIdle /\ MergeIdle /\ CliIdle
  /\ PackIdle /\ LexIdle

Dumps ==
  /\ pc = "start"
  /\ enc1' = dumps(v1)
  /\ enc2' = dumps(v2)
  /\ pc' = "dumped"
  /\ UNCHANGED <<v1, v2, dec1, escapeVars, splitVars, mergeVars, cliVars>>
  /\ UNCHANGED <<packVars, lexVars>>

Loads ==
  /\ pc = "dumped"
  /\ enc1.err = "none"
  /\ dec1' = loads(enc1.val)
  /\ pc' = "loaded"
  /\ UNCHANGED <<v1, v2, enc1, enc2, escapeVars, splitVars, mergeVars, cliVars>>
  /\ UNCHANGED <<packVars, lexVars>>

NextCodec == Dumps \/ Loads

SpecCodec == InitCodec /\ [][NextCodec]_vars

----------------------------------------------------------------------------
(* split_dumps and the merge of the strings it returns *)

\* Greatest byte budget given to split_dumps.
MaxBudget == 40

SplitLeaves == {JInt(1), JStr(B(<<"x", "y">>))}

SplitMembers ==
  SplitLeaves \cup
  {JObj(<<>>), JList(<<>>),
   JObj(<<Entry(B(<<"x">>), JInt(1))>>),
   JObj(<<Entry(B(<<"x">>), JInt(1)), Entry(B(<<"y">>), JNull)>>),
   JList(<<JInt(1)>>),
   JList(<<JNull, JBool(FALSE)>>)}

SplitValues == ObjectsOver({KeyA, KeyB}, SplitMembers, MaxEntries)

InitSplit ==
  /\ pc = "start"
  /\ j \in SplitValues
  /\ max_length \in 0..MaxBudget
  /\ parts = Ok(<<>>)
  /\ EscapeIdle /\ CodecIdle /\ MergeIdle /\ CliIdle
  /\ PackIdle /\ LexIdle

\* split_dumps(j, max_length) returns or throws.
Split ==
  /\ pc = "start"
  /\ parts' = split_dumps(j, max_length)
  /\ pc' = IF parts'.err = "none" THEN "returned" ELSE "thrown"
  /\ UNCHANGED <<j, max_length, escapeVars, codecVars, mergeVars, cliVars>>
  /\ UNCHANGED <<packVars, lexVars>>

\* The strings split_dumps returned are merged in their order.
MergeParts ==
  /\ pc = "returned"
  /\ parts.val # <<>>
  /\ sisl_strings' = parts.val
  /\ merged' = merge_sisl_strings(parts.val)
  /\ pc' = "merged"
  /\ UNCHANGED <<i, result, parsed, regrouped>>
  /\ UNCHANGED <<splitVars, escapeVars, codecVars, cliVars>>
  /\ UNCHANGED <<packVars, lexVars>>


----------------------------------------------------------------------------
(* merge_sisl_strings step by step *)

\* Most strings given to merge_sisl_strings.
MaxFragments == 3

RECURSIVE JoinText(_, _)
JoinText(texts, sep) ==
  IF texts = <<>> THEN <<>>
  ELSE IF Len(texts) = 1 THEN texts[1]
  ELSE texts[1] \o sep \o JoinText(Tail(texts), sep)

\* The text of an element and of a grouping, as the encoder lays them out.
ElementText(name, type, payload) ==
  name \o ColonSpace \o <<Ord["!"]>> \o type \o <<Ord[" "]>> \o payload

GroupingText(elements) ==
  <<Ord["{"]>> \o JoinText(elements, CommaSpace) \o <<Ord["}"]>>

IntText(n) == Quoted(to_string(n))
KeyX == B(<<"x">>)
KeyY == B(<<"y">>)
KeyC == B(<<"c">>)
KeyD == B(<<"d">>)

\* Fragments that overlap in every way: the same key with primitives of
\* different tags, with objects, with lists, with nodes of different kinds;
\* keys in different orders; a name or a list index repeated within one
\* grouping; a list index that is no number.
FragIntA == GroupingText(<<ElementText(KeyA, TypeInt, IntText(1))>>)
FragStrA_IntC ==
  GroupingText(<<ElementText(KeyA, TypeStr, Quoted(KeyX)),
                 ElementText(KeyC, TypeInt, IntText(4))>>)
FragNullB_IntA ==
  GroupingText(<<ElementText(KeyB, TypeNull, Quoted(<<>>)),
                 ElementText(KeyA, TypeInt, IntText(2))>>)
FragObjC ==
  GroupingText(<<ElementText(KeyC, TypeObj,
                   GroupingText(<<ElementText(KeyX, TypeInt, IntText(1))>>))>>)
FragObjC_BoolB ==
  GroupingText(<<ElementText(KeyC, TypeObj,
                   GroupingText(<<ElementText(KeyY, TypeInt, IntText(2)),
                                  ElementText(KeyX, TypeStr, Quoted(KeyX))>>)),
                 ElementText(KeyB, TypeBool, Quoted(TextTrue))>>)
FragListD_ListC ==
  GroupingText(<<ElementText(KeyD, TypeList,
                   GroupingText(<<ElementText(B(<<"_", "3">>), TypeInt,
                                              IntText(4)),
                                  ElementText(B(<<"_", "1">>), TypeInt,
                                              IntText(3))>>)),
                 ElementText(KeyC, TypeList, GroupingText(<<>>))>>)
FragListD ==
  GroupingText(<<ElementText(KeyD, TypeList,
                   GroupingText(<<ElementText(B(<<"_", "0">>), TypeObj,
                                    GroupingText(<<ElementText(KeyX, TypeInt,
                                                               IntText(1))>>)),
                                  ElementText(B(<<"_", "1">>), TypeStr,
                                              Quoted(KeyX))>>))>>)
FragIntA_IntA ==
  GroupingText(<<ElementText(KeyA, TypeInt, IntText(1)),
                 ElementText(KeyA, TypeInt, IntText(5))>>)
FragIntA_ObjA ==
  GroupingText(<<ElementText(KeyA, TypeInt, IntText(1)),
                 ElementText(KeyA, TypeObj, GroupingText(<<>>))>>)
FragListD_SameIndex ==
  GroupingText(<<ElementText(KeyD, TypeList,
                   GroupingText(<<ElementText(B(<<"_", "0">>), TypeObj,
                                              GroupingText(<<>>)),
                                  ElementText(B(<<"_", "0", "0">>), TypeInt,
                                              IntText(1))>>))>>)
FragObjC_ListX ==
  GroupingText(<<ElementText(KeyC, TypeObj,
                   GroupingText(<<ElementText(KeyX, TypeList,
                                              GroupingText(<<>>))>>))>>)
FragBadIndexD ==
  GroupingText(<<ElementText(KeyD, TypeList,
                   GroupingText(<<ElementText(B(<<"_", "x">>), TypeInt,
                                              IntText(2))>>))>>)

MergePool ==
  {FragIntA, FragStrA_IntC, FragNullB_IntA, FragObjC, FragObjC_BoolB,
   FragListD_ListC, FragListD, FragIntA_IntA, FragIntA_ObjA,
   FragListD_SameIndex, FragObjC_ListX, FragBadIndexD}

InitMerge ==
  /\ pc = "start"
  /\ sisl_strings \in SeqsUpTo(MergePool, MaxFragments)
  /\ i = 0
  /\ result = MObject(<<>>) /\ parsed = MObject(<<>>) /\ merged = Ok(JNull)
  /\ regrouped = Ok(JNull)
  /\ EscapeIdle /\ CodecIdle /\ SplitIdle /\ CliIdle
  /\ PackIdle /\ LexIdle

\* merge_sisl_strings up to its loop: the empty vector, or sisl_strings[0]
\* parsed and converted.
MergeBegin ==
  /\ pc = "start"
  /\ IF sisl_strings = <<>> THEN
       /\ merged' = Ok(JObj(<<>>))
       /\ pc' = "merged"
       /\ UNCHANGED <<i, result>>
     ELSE With(parse_as_object(sisl_strings[1]), LAMBDA first :
       IF first.err # "none" THEN
         /\ merged' = first
         /\ pc' = "thrown"
         /\ UNCHANGED <<i, result>>
       ELSE
         /\ result' = first.val
         /\ i' = 1
         /\ pc' = "loop"
         /\ UNCHANGED merged)
  /\ UNCHANGED <<sisl_strings, parsed, regrouped>>
  /\ UNCHANGED <<escapeVars, codecVars, splitVars, cliVars>>
  /\ UNCHANGED <<packVars, lexVars>>

\* The loop body up to from_grouping_as_object: parsed is set.
MergeParse ==
  /\ pc = "loop"
  /\ i < Len(sisl_strings)
  /\ With(parse_as_object(sisl_strings[i + 1]), LAMBDA next :
       IF next.err # "none" THEN
         /\ merged' = next
         /\ pc' = "thrown"
         /\ UNCHANGED parsed
       ELSE
         /\ parsed' = next.val
         /\ pc' = "merge"
         /\ UNCHANGED merged)
  /\ UNCHANGED <<sisl_strings, i, result, regrouped>>
  /\ UNCHANGED <<escapeVars, codecVars, splitVars, cliVars>>
  /\ UNCHANGED <<packVars, lexVars>>

\* result = merge_values(result, parsed) and the loop's i++.
MergeNext ==
  /\ pc = "merge"
  /\ With(merge_values(result, parsed), LAMBDA m :
       IF m.err # "none" THEN
         /\ merged' = m
         /\ pc' = "thrown"
         /\ UNCHANGED <<i, result>>
       ELSE
         /\ result' = m.val
         /\ i' = i + 1
         /\ pc' = "loop"
         /\ UNCHANGED merged)
  /\ UNCHANGED <<sisl_strings, parsed, regrouped>>
  /\ UNCHANGED <<escapeVars, codecVars, splitVars, cliVars>>
  /\ UNCHANGED <<packVars, lexVars>>

\* return to_json(result)
MergeReturn ==
  /\ pc = "loop"
  /\ i >= Len(sisl_strings)
  /\ merged' = to_json(result)
  /\ pc' = IF merged'.err = "none" THEN "merged" ELSE "thrown"
  /\ UNCHANGED <<sisl_strings, i, result, parsed, regrouped>>
  /\ UNCHANGED <<escapeVars, codecVars, splitVars, cliVars>>
  /\ UNCHANGED <<packVars, lexVars>>

NextMerge == MergeBegin \/ MergeParse \/ MergeNext \/ MergeReturn

SpecMerge == InitMerge /\ [][NextMerge]_vars

----------------------------------------------------------------------------
(* main.cpp: do_dumps and do_loads *)

EXIT_SUCCESS_CODE == 0
EXIT_PARSE_ERROR == 2
EXIT_INTERNAL_ERROR == 3

NewLine == <<LF>>

\* What a front-end operation leaves behind: the bytes on std::cout, the
\* head of the message on std::cerr and the exit code.
Outcome(out, message, code) == [stdout |-> out, stderr |-> message, rc |-> code]

\* The catch clauses of do_loads, for the exception e.
do_loads_catch(e) ==
  IF e = "ParseError" THEN Outcome(<<>>, "SISL parse error: ", EXIT_PARSE_ERROR)
  ELSE IF e = "LexerError"
  THEN Outcome(<<>>, "SISL lexer error: ", EXIT_PARSE_ERROR)
  ELSE IF e = "CodecError" THEN Outcome(<<>>, "Codec error: ", EXIT_PARSE_ERROR)
  ELSE IF e = "EscapeError" THEN Outcome(<<>>, "Escape error: ", EXIT_PARSE_ERROR)
  ELSE Outcome(<<>>, "Internal error: ", EXIT_INTERNAL_ERROR)

\* The catch clauses of do_dumps.
do_dumps_catch(e) ==
  IF e = "parse_error" THEN Outcome(<<>>, "JSON parse error: ", EXIT_PARSE_ERROR)
  ELSE IF e = "CodecError" THEN Outcome(<<>>, "Codec error: ", EXIT_PARSE_ERROR)
  ELSE Outcome(<<>>, "Internal error: ", EXIT_INTERNAL_ERROR)

\* std::cout << text << "\n" and the return of EXIT_SUCCESS_CODE, where text
\* is [err, val]: nothing is written when computing the text throws, and
\* the catch clauses of the handler, do_loads or do_dumps, take over.
write_line(text, handler) ==
  IF text.err = "none"
  THEN Outcome(text.val \o NewLine, "", EXIT_SUCCESS_CODE)
  ELSE IF handler = "do_loads" THEN do_loads_catch(text.err)
  ELSE do_dumps_catch(text.err)

\* The inner try block of do_loads for an input that json::parse reads as a
\* non-empty array of strings: result is set by merge_sisl_strings, and
\* catch (...) leaves it as it was constructed, null, when that throws.
merged_or_null(m) == IF m.err = "none" THEN m.val ELSE JNull

\* do_loads without --xml.  The input is given by what json::parse makes of
\* it: form "array" with the strings of a non-empty JSON array of strings,
\* or form "text" with the bytes of any other input.
do_loads(in) ==
  IF in.form = "array" THEN
    write_line(dump(merged_or_null(merge_sisl_strings(in.strings))),
               "do_loads")
  ELSE
    With(loads(in.text), LAMBDA r :
      IF r.err # "none" THEN do_loads_catch(r.err)
      ELSE write_line(dump(r.val), "do_loads"))

\* arr.dump() for the array of the parts.
dump_parts(parts_val) ==
  dump(JList([k \in 1..Len(parts_val) |-> JStr(parts_val[k])]))

\* The branch of do_dumps with --max-length, full being dumps(j).
do_dumps_split(value, max, full) ==
  IF Len(full.val) <= max THEN write_line(full, "do_dumps")
  ELSE With(split_dumps(value, max), LAMBDA split :
    IF split.err # "none" THEN do_dumps_catch(split.err)
    ELSE IF split.val = <<>> THEN write_line(full, "do_dumps")
    ELSE write_line(dump_parts(split.val), "do_dumps"))

\* do_dumps without --xml.  The input is given by what json::parse makes of
\* it: form "json" with the value, or form "invalid" for a parse_error.
do_dumps(in, max) ==
  IF in.form = "invalid" THEN do_dumps_catch("parse_error")
  ELSE IF in.value.kind # "obj"
  THEN Outcome(<<>>, "Error: Top-level input must be an object",
               EXIT_PARSE_ERROR)
  ELSE IF max.has_value THEN do_dumps_split(in.value, max.value, dumps(in.value))
  ELSE write_line(dumps(in.value), "do_dumps")

\* Fragments a JSON array or a SISL document on standard input is made of:
\* well-formed ones, one cut short, one with an unknown escape, one with an
\* open string, one with a string that is no UTF-8.
FragCutShort == B(<<"{", "a">>)
FragBadEscape ==
  GroupingText(<<ElementText(KeyA, TypeStr, Quoted(B(<<"\\", "q">>)))>>)
FragOpenString == B(<<"{", "a", ":", " ", "!", "s", "t", "r", " ", "\"">>)
FragNotUtf8 ==
  GroupingText(<<ElementText(KeyA, TypeStr, Quoted(B(<<"\\", "x", "f", "f">>)))>>)

CliFragments ==
  {FragIntA, FragStrA_IntC, FragObjC, FragListD, FragBadIndexD, FragCutShort,
   FragBadEscape, FragOpenString, FragNotUtf8}

LoadsInputs ==
  {[form |-> "array", strings |-> ss] :
     ss \in SeqsUpTo(CliFragments, MaxEntries) \ {<<>>}}
  \cup {[form |-> "text", text |-> t] : t \in CliFragments \cup {B(<<"[", "]">>)}}

DumpsInputs ==
  {[form |-> "json", value |-> v] :
     v \in ObjectsOver({KeyA, KeyB}, SplitMembers, 1) \cup
           {JObj(<<Entry(KeyA, JObj(<<Entry(KeyX, JInt(1)), Entry(KeyY, JNull)>>)),
                   Entry(KeyB, JList(<<JInt(1)>>))>>),
            JList(<<>>), JInt(1)}}
  \cup {[form |-> "invalid"]}

MaxLengths ==
  {[has_value |-> FALSE, value |-> 0]} \cup
  {[has_value |-> TRUE, value |-> n] : n \in {0, 1, 2, 20, 30, MaxBudget}}

InitCli ==
  /\ pc = "start"
  /\ \/ /\ mode = "loads"
        /\ input \in LoadsInputs
        /\ opt_max_length = [has_value |-> FALSE, value |-> 0]
     \/ /\ mode = "dumps"
        /\ input \in DumpsInputs
        /\ opt_max_length \in MaxLengths
  /\ stdout = <<>> /\ stderr = "" /\ rc = 0
  /\ target = NoFile /\ tmp_file = NoFile
  /\ EscapeIdle /\ CodecIdle /\ SplitIdle /\ MergeIdle
  /\ PackIdle /\ LexIdle

\* rc = do_loads(input, xml_mode) with xml_mode false.
DoLoads ==
  /\ pc = "start"
  /\ mode = "loads"
  /\ With(do_loads(input), LAMBDA o :
       stdout' = o.stdout /\ stderr' = o.stderr /\ rc' = o.rc)
  /\ pc' = "exited"
  /\ UNCHANGED <<mode, input, opt_max_length, target, tmp_file>>
  /\ UNCHANGED <<escapeVars, codecVars, splitVars, mergeVars>>
  /\ UNCHANGED <<packVars, lexVars>>

\* rc = do_dumps(input, max_length, xml_mode) with xml_mode false.
DoDumps ==
  /\ pc = "start"
  /\ mode = "dumps"
  /\ With(do_dumps(input, opt_max_length), LAMBDA o :
       stdout' = o.stdout /\ stderr' = o.stderr /\ rc' = o.rc)
  /\ pc' = "exited"
  /\ UNCHANGED <<mode, input, opt_max_length, target, tmp_file>>
  /\ UNCHANGED <<escapeVars, codecVars, splitVars, mergeVars>>
  /\ UNCHANGED <<packVars, lexVars>>

NextCli == DoLoads \/ DoDumps

SpecCli == InitCli /\ [][NextCli]_vars

----------------------------------------------------------------------------
(* split_dumps, and the front end given the same value and budget *)

\* do_dumps, without --xml, for the value and the budget split_dumps was
\* given.
DoDumpsSame ==
  /\ pc = "returned"
  /\ mode' = "dumps"
  /\ input' = [form |-> "json", value |-> j]
  /\ opt_max_length' = [has_value |-> TRUE, value |-> max_length]
  /\ With(do_dumps(input', opt_max_length'), LAMBDA o :
       stdout' = o.stdout /\ stderr' = o.stderr /\ rc' = o.rc)
  /\ pc' = "exited"
  /\ UNCHANGED <<target, tmp_file>>
  /\ UNCHANGED <<escapeVars, codecVars, splitVars, mergeVars>>
  /\ UNCHANGED <<packVars, lexVars>>

NextSplit == Split \/ MergeParts \/ DoDumpsSame

SpecSplit == InitSplit /\ [][NextSplit]_vars

\* --------------------------------------------------------------------------
\* Properties
\* --------------------------------------------------------------------------

\* C1: when split_dumps(j, max_length) returns a non-empty list, merging that
\* list in order with merge_sisl_strings returns a value equal to j.
SplitMergeRoundTrip == pc = "merged" => merged = Ok(j)

\* C2: every string split_dumps(j, max_length) returns is at most max_length
\* bytes long.
SplitBound ==
  pc = "returned" =>
    \A k \in 1..Len(parts.val) : Len(parts.val[k]) <= max_length

\* C3: loads(dumps(v1)) returns v1 for every object v1.
LoadsDumpsRoundTrip == pc = "loaded" => dec1 = Ok(v1)

RECURSIVE HasBareQuote(_)
HasBareQuote(s) ==
  IF s = <<>> THEN FALSE
  ELSE IF Head(s) = Ord["\\"] THEN
    IF Len(s) = 1 THEN FALSE ELSE HasBareQuote(Tail(Tail(s)))
  ELSE IF Head(s) = Ord["\""] THEN TRUE
  ELSE HasBareQuote(Tail(s))

\* C4: unescape_sisl_string(escape_sisl_string(b)) = b for every byte string
\* b, and the escaped form holds only printable ASCII bytes and no double
\* quote that is not escaped.
EscapeRoundTrip ==
  /\ pc \in {"escaped", "unescaped"} =>
       /\ \A k \in 1..Len(escaped) : escaped[k] >= 32 /\ escaped[k] <= 126
       /\ ~HasBareQuote(escaped)
  /\ pc = "unescaped" => unescaped = Ok(raw)

\* A string with a backslash, a quote and a byte above 0x7E went through
\* escape and unescape.
EscapeRoundTripWitness ==
  /\ pc = "unescaped"
  /\ raw = <<Ord["\\"], Ord["\""], 255>>
  /\ escaped = B(<<"\\", "\\", "\\", "\"", "\\", "x", "f", "f">>)

\* C5: dumps(v1) and dumps(v2) are the same bytes if and only if v1 = v2.
CanonicalEncoding ==
  pc \in {"dumped", "loaded"} => ((enc1 = enc2) <=> (v1 = v2))

\* C6: when --loads is given a JSON array of SISL strings whose merge fails,
\* an error is reported, the exit code is not the one of success and nothing
\* is written to the output.
LoadsArrayFailureReported ==
  (/\ pc = "exited"
   /\ mode = "loads"
   /\ input.form = "array"
   /\ merge_sisl_strings(input.strings).err # "none")
  => (stdout = <<>> /\ stderr # "" /\ rc # EXIT_SUCCESS_CODE)

\* What the requested operation comes to, "none" when it succeeds: the
\* merge or the decoding and the printing of the value for --loads, the
\* reading of the JSON text, the encoding and the split for --dumps.
loads_error(in) ==
  AndThen(IF in.form = "array" THEN merge_sisl_strings(in.strings)
          ELSE loads(in.text),
          LAMBDA r : dump(r.val)).err

dumps_error(in, max) ==
  IF in.form = "invalid" THEN "parse_error"
  ELSE IF in.value.kind # "obj" THEN "not_object"
  ELSE AndThen(dumps(in.value), LAMBDA full :
         IF ~max.has_value \/ Len(full.val) <= max.value THEN full
         ELSE AndThen(split_dumps(in.value, max.value), LAMBDA split :
                IF split.val = <<>> THEN full
                ELSE dump_parts(split.val))).err

operation_error ==
  IF mode = "loads" THEN loads_error(input)
  ELSE dumps_error(input, opt_max_length)

InvalidInputErrors ==
  {"LexerError", "ParseError", "CodecError", "EscapeError", "parse_error",
   "not_object"}

\* C7: the exit code is 0 only when the operation succeeded, 2 whenever the
\* input is invalid (a lexer, parse, codec or escape error), 3 only for an
\* internal error.
ExitCodes ==
  pc = "exited" =>
    /\ rc \in {EXIT_SUCCESS_CODE, EXIT_PARSE_ERROR, EXIT_INTERNAL_ERROR}
    /\ rc = EXIT_SUCCESS_CODE => operation_error = "none"
    /\ operation_error \in InvalidInputErrors => rc = EXIT_PARSE_ERROR
    /\ rc = EXIT_INTERNAL_ERROR =>
         operation_error \notin InvalidInputErrors \cup {"none"}

\* The keys of a sequence of entries, in their order.
KeysOf(entries) == [k \in 1..Len(entries) |-> entries[k].key]

\* The keys of the sequence that are not in seen, each once, in the order of
\* their first occurrence.
RECURSIVE FreshKeys(_, _)
FreshKeys(keys, seen) ==
  IF keys = <<>> THEN <<>>
  ELSE IF Head(keys) \in seen THEN FreshKeys(Tail(keys), seen)
  ELSE <<Head(keys)>> \o FreshKeys(Tail(keys), seen \cup {Head(keys)})

\* r is what merging b into a has to be as far as the order of keys goes, at
\* every object depth: the keys of a where they were, then the keys only b
\* has, in the order of b.  The test goes into the values of a key where a
\* and b each hold the key once.
RECURSIVE KeysKept(_, _, _)
KeysKept(a, b, r) ==
  IF a.type = "OBJECT" /\ b.type = "OBJECT" THEN
    /\ r.type = "OBJECT"
    /\ KeysOf(r.obj_entries) =
         KeysOf(a.obj_entries) \o
         FreshKeys(KeysOf(b.obj_entries),
                   {a.obj_entries[k].key : k \in 1..Len(a.obj_entries)})
    /\ \A p \in 1..Len(a.obj_entries) : \A q \in 1..Len(b.obj_entries) :
         (/\ a.obj_entries[p].key = b.obj_entries[q].key
          /\ \A h \in 1..Len(a.obj_entries) :
               a.obj_entries[h].key = a.obj_entries[p].key => h = p
          /\ \A h \in 1..Len(b.obj_entries) :
               b.obj_entries[h].key = b.obj_entries[q].key => h = q)
         => KeysKept(a.obj_entries[p].val, b.obj_entries[q].val,
                     r.obj_entries[p].val)
  ELSE IF a.type = "LIST" /\ b.type = "LIST" THEN
    /\ r.type = "LIST"
    /\ \A p \in 1..Len(a.list_entries) :
         MapHas(b.list_entries, a.list_entries[p].index) =>
           /\ MapHas(r.list_entries, a.list_entries[p].index)
           /\ KeysKept(a.list_entries[p].val,
                       MapGet(b.list_entries, a.list_entries[p].index),
                       MapGet(r.list_entries, a.list_entries[p].index))
  ELSE TRUE

\* The nodes of the fragment trees in nodes that are objects.
ObjectsIn(nodes) == {n \in nodes : n.type = "OBJECT"}

\* The values the objects in nodes hold under key.
ValuesUnder(nodes, key) ==
  UNION {{n.obj_entries[k].val :
            k \in {h \in 1..Len(n.obj_entries) : n.obj_entries[h].key = key}} :
         n \in ObjectsIn(nodes)}

\* The values the lists in nodes hold at index idx.
ValuesAtIndex(nodes, idx) ==
  {MapGet(n.list_entries, idx) :
     n \in {m \in nodes : m.type = "LIST" /\ MapHas(m.list_entries, idx)}}

\* In the value jv, and in every object below it, a key that the nodes of
\* the first fragment at the same path hold stands before every key they do
\* not hold.
RECURSIVE FirstKeysPrecede(_, _)
FirstKeysPrecede(nodes, jv) ==
  IF jv.kind = "obj" THEN
    /\ \A p, q \in 1..Len(jv.entries) :
         (/\ ValuesUnder(nodes, jv.entries[p].key) # {}
          /\ ValuesUnder(nodes, jv.entries[q].key) = {}) => p < q
    /\ \A p \in 1..Len(jv.entries) :
         FirstKeysPrecede(ValuesUnder(nodes, jv.entries[p].key),
                          jv.entries[p].val)
  ELSE IF jv.kind = "list" THEN
    \A p \in 1..Len(jv.items) :
      FirstKeysPrecede(ValuesAtIndex(nodes, p - 1), jv.items[p])
  ELSE TRUE

\* C8: the merge of two objects keeps every key of the left operand where it
\* was and puts the keys only the right operand has after them, in the order
\* of the right operand; in the value merge_sisl_strings returns, the keys of
\* the first fragment stand before the keys a later fragment brought in, at
\* every object depth.
MergeKeepsKeyOrder ==
  /\ [][(pc = "merge" /\ pc' = "loop") => KeysKept(result, parsed, result')]_vars
  /\ [](pc = "merged" /\ sisl_strings # <<>> =>
          FirstKeysPrecede({parse_as_object(sisl_strings[1]).val}, merged.val))

\* Three fragments were merged: the second brings a key into the object
\* under c and a key b, the third a key a and another value for b.
MergeKeepsKeyOrderWitness ==
  /\ pc = "merged"
  /\ sisl_strings = <<FragObjC, FragObjC_BoolB, FragNullB_IntA>>
  /\ merged =
       Ok(JObj(<<Entry(KeyC, JObj(<<Entry(KeyX, JStr(KeyX)),
                                    Entry(KeyY, JInt(2))>>)),
                 Entry(KeyB, JNull), Entry(KeyA, JInt(2))>>))

\* What from_grouping_as_object makes of the grouping g the parser gave,
\* and with it the elements of g.
ConvertedFragment(g) ==
  IF g.err # "none" THEN g
  ELSE With(from_grouping_as_object(g.elements), LAMBDA m :
         IF m.err # "none" THEN m
         ELSE [err |-> "none", val |-> m.val, elements |-> g.elements])

\* The fragments of sisl_strings, each parsed and converted on its own.
Converted ==
  [k \in 1..Len(sisl_strings) |-> ConvertedFragment(parse(sisl_strings[k]))]

AllConvert(fs) == \A k \in 1..Len(fs) : fs[k].err = "none"

\* No grouping of the element tree holds two elements of one name, nor a
\* list grouping two elements of one index.
RECURSIVE NoRepeat(_, _)
NoRepeat(elements, is_list) ==
  /\ \A p, q \in 1..Len(elements) :
       p < q =>
         IF is_list
         THEN index_of_name(elements[p].name).val #
              index_of_name(elements[q].name).val
         ELSE elements[p].name # elements[q].name
  /\ \A p \in 1..Len(elements) :
       ~elements[p].is_string =>
         NoRepeat(elements[p].elements, elements[p].type = TypeList)

NoFragmentRepeats(fs) ==
  \A k \in 1..Len(fs) : NoRepeat(fs[k].elements, FALSE)

\* The paths of the nodes below the node m.
RECURSIVE PathsOf(_)
PathsOf(m) ==
  IF m.type = "OBJECT" THEN
    UNION {{<<KeyComponent(m.obj_entries[k].key)>>} \cup
           {<<KeyComponent(m.obj_entries[k].key)>> \o p :
              p \in PathsOf(m.obj_entries[k].val)} :
           k \in 1..Len(m.obj_entries)}
  ELSE IF m.type = "LIST" THEN
    UNION {{<<IndexComponent(m.list_entries[k].index)>>} \cup
           {<<IndexComponent(m.list_entries[k].index)>> \o p :
              p \in PathsOf(m.list_entries[k].val)} :
           k \in 1..Len(m.list_entries)}
  ELSE {}

\* The nodes the node m holds at the path: more than one where a name is
\* repeated on the way.
RECURSIVE NodesAt(_, _)
NodesAt(m, path) ==
  IF path = <<>> THEN {m}
  ELSE IF ~Head(path).is_index /\ m.type = "OBJECT" THEN
    UNION {NodesAt(m.obj_entries[k].val, Tail(path)) :
             k \in {h \in 1..Len(m.obj_entries) :
                      m.obj_entries[h].key = Head(path).key}}
  ELSE IF Head(path).is_index /\ m.type = "LIST" THEN
    UNION {NodesAt(m.list_entries[k].val, Tail(path)) :
             k \in {h \in 1..Len(m.list_entries) :
                      m.list_entries[h].index = Head(path).index}}
  ELSE {}

PrimitivesAt(m, path) ==
  {n.primitive : n \in {h \in NodesAt(m, path) : h.type = "PRIMITIVE"}}

\* The value the JSON value jv holds at the path, as a set: empty when there
\* is none.
RECURSIVE JsonAt(_, _)
JsonAt(jv, path) ==
  IF path = <<>> THEN {jv}
  ELSE IF ~Head(path).is_index /\ jv.kind = "obj" THEN
    UNION {JsonAt(jv.entries[k].val, Tail(path)) :
             k \in {h \in 1..Len(jv.entries) :
                      jv.entries[h].key = Head(path).key}}
  ELSE IF /\ Head(path).is_index
          /\ jv.kind = "list"
          /\ Head(path).index < Len(jv.items)
  THEN JsonAt(jv.items[Head(path).index + 1], Tail(path))
  ELSE {}

\* Some path holds nodes of different kinds in two of the fragments.
KindsDiffer(fs) ==
  \E h, k \in 1..Len(fs) :
    /\ h < k
    /\ \E p \in PathsOf(fs[h].val) \cap PathsOf(fs[k].val) :
         \E a \in NodesAt(fs[h].val, p) : \E b \in NodesAt(fs[k].val, p) :
           a.type # b.type

\* The paths that hold a primitive in two fragments, the later of them
\* being the last fragment with that path, each with the primitives the
\* later fragment holds there.
LaterPrimitives(fs) ==
  UNION {{[path |-> p, primitives |-> PrimitivesAt(fs[hk[2]].val, p)] :
            p \in {q \in PathsOf(fs[hk[1]].val) \cap PathsOf(fs[hk[2]].val) :
                     /\ PrimitivesAt(fs[hk[1]].val, q) # {}
                     /\ PrimitivesAt(fs[hk[2]].val, q) # {}
                     /\ \A n \in (hk[2] + 1)..Len(fs) :
                          q \notin PathsOf(fs[n].val)}} :
         hk \in {pair \in (1..Len(fs)) \X (1..Len(fs)) : pair[1] < pair[2]}}

\* The merged value holds, at each of these paths, a primitive of the later
\* fragment.
MergedHoldsLater(fs) ==
  \A s \in LaterPrimitives(fs) :
    /\ JsonAt(merged.val, s.path) # {}
    /\ JsonAt(merged.val, s.path) \subseteq s.primitives

\* C9: when the same path holds a primitive in two merged fragments, the
\* merged value at that path is the primitive of the later fragment, whatever
\* the two type tags are, and no error is raised on their account: a
\* CodecError has another cause, a path with nodes of different kinds.
PrimitiveOfLaterFragment ==
  /\ pc = "merged" =>
       With(Converted, LAMBDA fs : AllConvert(fs) => MergedHoldsLater(fs))
  /\ (pc = "thrown" /\ merged.err = "CodecError") =>
       With(Converted, LAMBDA fs :
         (AllConvert(fs) /\ LaterPrimitives(fs) # {}) => KindsDiffer(fs))

\* C9, for fragments in which no grouping repeats a name or a list index.
PrimitiveOfLaterFragmentNoRepeat ==
  /\ pc = "merged" =>
       With(Converted, LAMBDA fs :
         (AllConvert(fs) /\ NoFragmentRepeats(fs)) => MergedHoldsLater(fs))
  /\ (pc = "thrown" /\ merged.err = "CodecError") =>
       With(Converted, LAMBDA fs :
         (AllConvert(fs) /\ NoFragmentRepeats(fs) /\ LaterPrimitives(fs) # {})
         => KindsDiffer(fs))

\* An int under a was merged with a str under a of a later fragment.
PrimitiveOfLaterFragmentWitness ==
  /\ pc = "merged"
  /\ sisl_strings = <<FragIntA, FragStrA_IntC>>
  /\ merged = Ok(JObj(<<Entry(KeyA, JStr(KeyX)), Entry(KeyC, JInt(4))>>))

\* C10: the merge raises CodecError and returns no value whenever the same
\* path holds nodes of different kinds in two fragments, at any depth.
KindConflictRaises ==
  pc \in {"merged", "thrown"} =>
    \/ pc = "thrown" /\ merged.err = "CodecError"
    \/ With(Converted, LAMBDA fs : ~(AllConvert(fs) /\ KindsDiffer(fs)))

\* C10, for fragments in which no grouping repeats a name or a list index.
KindConflictRaisesNoRepeat ==
  pc \in {"merged", "thrown"} =>
    \/ pc = "thrown" /\ merged.err = "CodecError"
    \/ With(Converted, LAMBDA fs :
         ~(AllConvert(fs) /\ NoFragmentRepeats(fs) /\ KindsDiffer(fs)))

\* The int under x in the object under c met a list under x of a later
\* fragment, after a fragment without c.
KindConflictRaisesWitness ==
  /\ pc = "thrown"
  /\ sisl_strings = <<FragObjC, FragIntA, FragObjC_ListX>>
  /\ i = 2
  /\ merged.err = "CodecError"

-----------------------------------------------------------------------------
(* The binary merge applied to three fragments in two groupings *)

FragObjC_ObjC ==
  GroupingText(<<ElementText(KeyC, TypeObj, GroupingText(<<
                   ElementText(KeyX, TypeInt, IntText(1))>>)),
                 ElementText(KeyC, TypeObj, GroupingText(<<
                   ElementText(KeyY, TypeInt, IntText(2))>>))>>)
FragObjC_IntD ==
  GroupingText(<<ElementText(KeyC, TypeObj, GroupingText(<<
                   ElementText(KeyD, TypeInt, IntText(3))>>))>>)

RegroupPool == MergePool \cup {FragObjC_ObjC, FragObjC_IntD}

\* merge_values(a, merge_values(b, c)) of the three fragments, converted to
\* a JSON value as merge_sisl_strings converts its result.
merge_regrouped(a_str, b_str, c_str) ==
  AndThen(parse_as_object(a_str), LAMBDA a :
  AndThen(parse_as_object(b_str), LAMBDA b :
  AndThen(parse_as_object(c_str), LAMBDA c :
  AndThen(merge_values(b.val, c.val), LAMBDA bc :
  AndThen(merge_values(a.val, bc.val), LAMBDA r :
    to_json(r.val))))))

InitRegroup ==
  /\ pc = "start"
  /\ sisl_strings \in [1..3 -> RegroupPool]
  /\ i = 0
  /\ result = MObject(<<>>) /\ parsed = MObject(<<>>) /\ merged = Ok(JNull)
  /\ regrouped = Ok(JNull)
  /\ EscapeIdle /\ CodecIdle /\ SplitIdle /\ CliIdle
  /\ PackIdle /\ LexIdle

\* merge_sisl_strings folds merge_values over the three fragments.
MergeFolded ==
  /\ pc = "start"
  /\ merged' = merge_sisl_strings(sisl_strings)
  /\ pc' = "folded"
  /\ UNCHANGED <<sisl_strings, i, result, parsed, regrouped>>
  /\ UNCHANGED <<escapeVars, codecVars, splitVars, cliVars>>
  /\ UNCHANGED <<packVars, lexVars>>

\* The first fragment is merged with the merge of the other two.
MergeRegrouped ==
  /\ pc = "folded"
  /\ regrouped' =
       merge_regrouped(sisl_strings[1], sisl_strings[2], sisl_strings[3])
  /\ pc' = "regrouped"
  /\ UNCHANGED <<sisl_strings, i, result, parsed, merged>>
  /\ UNCHANGED <<escapeVars, codecVars, splitVars, cliVars>>
  /\ UNCHANGED <<packVars, lexVars>>

NextRegroup == MergeFolded \/ MergeRegrouped

SpecRegroup == InitRegroup /\ [][NextRegroup]_vars

\* No path holds nodes of different kinds in two of the fragments, and none
\* holds a primitive in two of them.
OverlapsStructural(fs) ==
  /\ ~KindsDiffer(fs)
  /\ \A h, k \in 1..Len(fs) :
       h < k =>
         \A p \in PathsOf(fs[h].val) \cap PathsOf(fs[k].val) :
           PrimitivesAt(fs[h].val, p) = {} /\ PrimitivesAt(fs[k].val, p) = {}

\* C11: for fragments a, b, c whose overlaps are only structural, folding
\* the merge over [a, b, c] gives the same value as merging a with the
\* result of merging b and c.
MergeAssociative ==
  pc = "regrouped" =>
    \/ merged = regrouped
    \/ With(Converted, LAMBDA fs :
         ~(AllConvert(fs) /\ OverlapsStructural(fs)))

\* C11, for fragments in which no grouping repeats a name or a list index.
MergeAssociativeNoRepeat ==
  pc = "regrouped" =>
    \/ merged = regrouped
    \/ With(Converted, LAMBDA fs :
         ~(AllConvert(fs) /\ NoFragmentRepeats(fs) /\ OverlapsStructural(fs)))

\* Two fragments that share the object under c, and a third one,
\* were merged in both groupings.
MergeAssociativeWitness ==
  /\ pc = "regrouped"
  /\ sisl_strings = <<FragObjC, FragObjC_IntD, FragIntA>>
  /\ merged = regrouped
  /\ merged = Ok(JObj(<<Entry(KeyC, JObj(<<Entry(KeyX, JInt(1)),
                                           Entry(KeyD, JInt(3))>>)),
                        Entry(KeyA, JInt(1))>>))

-----------------------------------------------------------------------------
(* loads and merge_sisl_strings applied to one SISL text *)

\* Names of list children that are "_" and decimal digits.
Name_0 == B(<<"_", "0">>)
Name_1 == B(<<"_", "1">>)
Name_3 == B(<<"_", "3">>)
Name_01 == B(<<"_", "0", "1">>)
IndexNames == {Name_0, Name_1, Name_3, Name_01}

\* Names of list children that are not.
OtherNames ==
  {B(<<"_">>), B(<<"_", "x">>), B(<<"_", "1", "a">>), B(<<"_", "-", "1">>),
   B(<<"_", "1", ".", "5">>), B(<<"x", "1">>)}

\* Most children of a list grouping with names of IndexNames.
MaxChildren == 3

\* {d: !list {...}} with a child of each name, the child at position p
\* holding the int p.
ListText(names) ==
  GroupingText(<<ElementText(KeyD, TypeList, GroupingText(
    [p \in 1..Len(names) |-> ElementText(names[p], TypeInt, IntText(p))]))>>)

ListTexts ==
  {ListText(ns) : ns \in SeqsUpTo(IndexNames, MaxChildren)
                        \cup SeqsUpTo(IndexNames \cup OtherNames, 2)}

\* Payloads of an element tagged int.
IntPayloads ==
  {B(<<"5">>), B(<<"-", "5">>), B(<<"0", "0", "7">>), B(<<"-", "0">>),
   B(<<"+", "5">>), B(<<" ", "5">>), B(<<"5", " ">>), B(<<"5", "a">>),
   B(<<"0", "x", "1", "0">>), B(<<"5", ".", "0">>), B(<<"-", "-", "5">>),
   B(<<"-">>), B(<<"a">>), <<>>, <<TAB, Ord["-"], Ord["5"]>>}

IntTexts ==
  {GroupingText(<<ElementText(KeyA, TypeInt, Quoted(p))>>) : p \in IntPayloads}

\* Elements tagged null, bool and float, with payloads of either kind.
TaggedTexts ==
  {GroupingText(<<ElementText(KeyA, p[1], Quoted(p[2]))>>) : p \in
     {<<TypeNull, <<>>>>, <<TypeNull, B(<<"x">>)>>,
      <<TypeBool, B(<<"t", "r", "u", "e">>)>>,
      <<TypeBool, B(<<"f", "a", "l", "s", "e">>)>>,
      <<TypeBool, B(<<"y", "e", "s">>)>>, <<TypeBool, <<>>>>,
      <<TypeFloat, B(<<"1", ".", "5">>)>>}}

InitDecode ==
  /\ pc = "start"
  /\ enc1 \in {Ok(t) : t \in ListTexts \cup IntTexts \cup TaggedTexts}
  /\ v1 = JNull /\ v2 = JNull /\ enc2 = Ok(<<>>) /\ dec1 = Ok(JNull)
  /\ EscapeIdle /\ SplitIdle /\ MergeIdle /\ CliIdle
  /\ PackIdle /\ LexIdle

\* loads of the text.
LoadsText ==
  /\ pc = "start"
  /\ dec1' = loads(enc1.val)
  /\ pc' = "loaded"
  /\ UNCHANGED <<v1, v2, enc1, enc2, escapeVars, splitVars, mergeVars, cliVars>>
  /\ UNCHANGED <<packVars, lexVars>>

\* merge_sisl_strings of the text alone.
MergeText ==
  /\ pc = "loaded"
  /\ sisl_strings' = <<enc1.val>>
  /\ merged' = merge_sisl_strings(<<enc1.val>>)
  /\ pc' = "merged"
  /\ UNCHANGED <<i, result, parsed, regrouped>>
  /\ UNCHANGED <<codecVars, escapeVars, splitVars, cliVars>>
  /\ UNCHANGED <<packVars, lexVars>>

NextDecode == LoadsText \/ MergeText

SpecDecode == InitDecode /\ [][NextDecode]_vars

\* The name is "_" followed by one or more decimal digits and nothing else.
IsIndexName(name) ==
  /\ Len(name) >= 2
  /\ name[1] = Ord["_"]
  /\ \A k \in 2..Len(name) : is_digit(name[k])

\* The text is one element that is a list grouping.
IsListText(elements) ==
  /\ Len(elements) = 1
  /\ ~elements[1].is_string
  /\ elements[1].type = TypeList

IndexOf(name) == DigitsValue(name, 2, Len(name) + 1)

MaxOf(S) == CHOOSE m \in S : \A x \in S : x <= m

\* items is the array of the children: of length max_index + 1, the
\* decoded child named _N at position N, null where there is no child.
DenseArrayOf(children, items) ==
  IF children = <<>> THEN items = <<>>
  ELSE /\ Len(items) = MaxOf({IndexOf(children[p].name) :
                                p \in 1..Len(children)}) + 1
       /\ \A p \in 1..Len(children) :
            /\ IndexOf(children[p].name) < Len(items)
            /\ Ok(items[IndexOf(children[p].name) + 1]) =
                 decode_element(children[p])
       /\ \A n \in 1..Len(items) :
            (\A p \in 1..Len(children) : IndexOf(children[p].name) # n - 1)
              => items[n] = JNull

\* C12: decoding a !list grouping with children named _N yields an array of
\* length exactly max_index + 1, in which position N holds the decoded child
\* named _N and every position with no child is null, whatever the order of
\* the children; an empty grouping yields an empty array.
ListDecodedDense ==
  pc \in {"loaded", "merged"} =>
    With(parse(enc1.val), LAMBDA g :
      (/\ g.err = "none"
       /\ IsListText(g.elements)
       /\ \A p \in 1..Len(g.elements[1].elements) :
            IsIndexName(g.elements[1].elements[p].name))
      => /\ dec1.err = "none"
         /\ dec1.val.kind = "obj"
         /\ Len(dec1.val.entries) = 1
         /\ dec1.val.entries[1].val.kind = "list"
         /\ DenseArrayOf(g.elements[1].elements,
                         dec1.val.entries[1].val.items))

\* C19: a child of a !list grouping whose name is not "_" followed only by
\* decimal digits makes both decode and merge raise CodecError.
BadListNameRaises ==
  pc = "merged" =>
    With(parse(enc1.val), LAMBDA g :
      (/\ g.err = "none"
       /\ IsListText(g.elements)
       /\ \E p \in 1..Len(g.elements[1].elements) :
            ~IsIndexName(g.elements[1].elements[p].name))
      => dec1.err = "CodecError" /\ merged.err = "CodecError")

\* The payload is an optional "-" followed by one or more decimal digits.
IsDecimalInteger(s) ==
  /\ s # <<>>
  /\ IF s[1] = Ord["-"]
     THEN Len(s) >= 2 /\ \A k \in 2..Len(s) : is_digit(s[k])
     ELSE \A k \in 1..Len(s) : is_digit(s[k])

\* The text is one string element tagged int.
IsIntText(elements) ==
  /\ Len(elements) = 1
  /\ elements[1].is_string
  /\ elements[1].type = TypeInt

\* C18: decoding an element tagged int raises CodecError unless its
\* unescaped payload is exactly an optional "-" followed by one or more
\* decimal digits: a leading "+", leading white space, trailing characters
\* that are no digits and a radix prefix are rejected.
IntPayloadStrict ==
  pc \in {"loaded", "merged"} =>
    With(parse(enc1.val), LAMBDA g :
      (g.err = "none" /\ IsIntText(g.elements)) =>
        With(unescape_sisl_string(g.elements[1].content), LAMBDA u :
          u.err = "none" =>
            (dec1.err = "CodecError" <=> ~IsDecimalInteger(u.val))))

-----------------------------------------------------------------------------
(* The merge of two lists and the finalization of a list *)

\* The indices the std::map of a list node holds.
IndicesOf(m) == {m.list_entries[k].index : k \in 1..Len(m.list_entries)}

\* r is the merge of the nodes a and b as far as lists go: where a and b are
\* lists, r holds the indices of both, the merge of the two nodes at an
\* index both hold and the node of the one list at any other index; the
\* same below every index both hold, and below every key of two objects
\* that b holds once.
RECURSIVE ListsMerged(_, _, _)
ListsMerged(a, b, r) ==
  IF a.type # b.type THEN TRUE
  ELSE IF a.type = "LIST" THEN
    /\ r.type = "LIST"
    /\ IndicesOf(r) = IndicesOf(a) \cup IndicesOf(b)
    /\ \A n \in IndicesOf(a) \cap IndicesOf(b) :
         /\ Ok(MapGet(r.list_entries, n)) =
              merge_values(MapGet(a.list_entries, n), MapGet(b.list_entries, n))
         /\ ListsMerged(MapGet(a.list_entries, n), MapGet(b.list_entries, n),
                        MapGet(r.list_entries, n))
    /\ \A n \in IndicesOf(a) \ IndicesOf(b) :
         MapGet(r.list_entries, n) = MapGet(a.list_entries, n)
    /\ \A n \in IndicesOf(b) \ IndicesOf(a) :
         MapGet(r.list_entries, n) = MapGet(b.list_entries, n)
  ELSE IF a.type = "OBJECT" THEN
    \A k \in 1..Len(b.obj_entries) :
      (/\ FindKey(a.obj_entries, b.obj_entries[k].key) # 0
       /\ \A h \in 1..Len(b.obj_entries) :
            h # k => b.obj_entries[h].key # b.obj_entries[k].key)
      => /\ r.type = "OBJECT"
         /\ Len(r.obj_entries) >= FindKey(a.obj_entries, b.obj_entries[k].key)
         /\ ListsMerged(
              a.obj_entries[FindKey(a.obj_entries, b.obj_entries[k].key)].val,
              b.obj_entries[k].val,
              r.obj_entries[FindKey(a.obj_entries, b.obj_entries[k].key)].val)
  ELSE TRUE

\* The node of the last entry of the key in obj_entries.
LastOfKey(obj_entries, key) ==
  obj_entries[CHOOSE k \in 1..Len(obj_entries) :
                /\ obj_entries[k].key = key
                /\ \A h \in (k + 1)..Len(obj_entries) :
                     obj_entries[h].key # key].val

\* jv is the node m finalized: a list with greatest index M is an array of
\* length M + 1 with the finalized node of index n at position n and null
\* where the list holds no index.
RECURSIVE Finalized(_, _)
Finalized(m, jv) ==
  IF m.type = "LIST" THEN
    /\ jv.kind = "list"
    /\ IF m.list_entries = <<>> THEN jv.items = <<>>
       ELSE /\ Len(jv.items) = MaxOf(IndicesOf(m)) + 1
            /\ \A n \in 0..MaxOf(IndicesOf(m)) :
                 IF n \in IndicesOf(m)
                 THEN Finalized(MapGet(m.list_entries, n), jv.items[n + 1])
                 ELSE jv.items[n + 1] = JNull
  ELSE IF m.type = "OBJECT" THEN
    /\ jv.kind = "obj"
    /\ \A k \in 1..Len(jv.entries) :
         /\ FindKey(m.obj_entries, jv.entries[k].key) # 0
         /\ Finalized(LastOfKey(m.obj_entries, jv.entries[k].key),
                      jv.entries[k].val)
  ELSE jv = m.primitive

\* C13: merging two lists yields a list whose index set is the union of
\* both index sets, with the node at a common index being the recursive
\* merge of the two nodes and the node at an index that one side holds taken
\* unchanged; finalization gives a dense array of length M + 1 for maximum
\* index M, with null at every index present in neither list.
ListMergeUnion ==
  /\ [][(pc = "merge" /\ pc' = "loop") => ListsMerged(result, parsed, result')]_vars
  /\ [](pc = "merged" => Finalized(result, merged.val))

\* The list under d with indices 0 and 1 was merged with the list under d
\* with indices 3 and 1: index 1 holds the merge of the two primitives and
\* position 2 of the array is null.
ListMergeUnionWitness ==
  /\ pc = "merged"
  /\ sisl_strings = <<FragListD, FragListD_ListC>>
  /\ merged =
       Ok(JObj(<<Entry(KeyD, JList(<<JObj(<<Entry(KeyX, JInt(1))>>), JInt(3),
                                     JNull, JInt(4)>>)),
                 Entry(KeyC, JList(<<>>))>>))

-----------------------------------------------------------------------------
(* split_dumps and the byte budget *)

\* The encoding of the fragment of some leaf of the value is longer than
\* the budget.
SomeLeafTooLong(value, budget) ==
  With(collect_leaves(value, <<>>), LAMBDA leaves :
    \E k \in 1..Len(leaves) :
      Len(dumps(build_fragment(leaves[k])).val) > budget)

\* C14: split_dumps(j, max_length) raises CodecError, and returns no
\* fragment at all, whenever the encoding of the single-leaf fragment of at
\* least one leaf of j is longer than max_length and the full encoding of j
\* is longer than max_length.
SplitLeafTooLongRaises ==
  (/\ pc \in {"returned", "thrown", "merged", "exited"}
   /\ Len(dumps(j).val) > max_length
   /\ SomeLeafTooLong(j, max_length))
  => pc = "thrown" /\ parts = Throw("CodecError")

\* The fragment of the leaf under a takes 14 bytes, one more than the
\* budget, and the fragment of the leaf under b fits.
SplitLeafTooLongRaisesWitness ==
  /\ pc = "thrown"
  /\ j = JObj(<<Entry(KeyB, JInt(1)), Entry(KeyA, JStr(B(<<"x", "y">>)))>>)
  /\ max_length = 13
  /\ parts.err = "CodecError"

\* C15: split_dumps(j, max_length) raises CodecError for every object j
\* when max_length < 2, also for the empty object and for an object that
\* holds only empty containers.
SplitBelowTwoRaises ==
  (pc \in {"returned", "thrown", "merged", "exited"} /\ max_length < 2)
  => pc = "thrown" /\ parts.err = "CodecError"

\* C16: split_dumps(j, max_length) returns the empty list exactly when
\* dumps(j) is at most max_length bytes long, and the front end then writes
\* dumps(j) itself as its one output.
SplitEmptyIffFits ==
  /\ pc \in {"returned", "merged", "exited"} =>
       (parts.val = <<>> <=> Len(dumps(j).val) <= max_length)
  /\ pc = "thrown" => Len(dumps(j).val) > max_length
  /\ (pc = "exited" /\ parts.val = <<>>) =>
       /\ stdout = dumps(j).val \o NewLine
       /\ stderr = ""
       /\ rc = EXIT_SUCCESS_CODE

\* The encoding of the value takes exactly the 27 bytes of the budget:
\* split_dumps returned the empty list and the front end wrote the encoding.
SplitEmptyIffFitsWitness ==
  /\ pc = "exited"
  /\ j = JObj(<<Entry(KeyB, JInt(1)), Entry(KeyA, JStr(B(<<"x", "y">>)))>>)
  /\ max_length = Len(dumps(j).val)
  /\ parts = Ok(<<>>)
  /\ stdout = dumps(j).val \o NewLine

-----------------------------------------------------------------------------
(* main with --output *)

\* What the file named by --output holds before the run, when it exists.
OldContent == B(<<"o", "l", "d">>) \o NewLine

\* main from the set up of the output redirection to its return, for the
\* outcome o of do_dumps or do_loads with std::cout redirected: opens tells
\* whether ofs.open(tmp_path) succeeded, renames whether std::rename did.
main_output(o, old_target, opens, renames) ==
  IF ~opens THEN
    [stdout |-> <<>>, stderr |-> "Error: Cannot open output file: ",
     rc |-> EXIT_PARSE_ERROR, target |-> old_target, tmp_file |-> NoFile]
  ELSE IF o.rc = EXIT_SUCCESS_CODE THEN
    IF renames THEN
      [stdout |-> <<>>, stderr |-> o.stderr, rc |-> o.rc,
       target |-> FileOf(o.stdout), tmp_file |-> NoFile]
    ELSE
      [stdout |-> <<>>, stderr |-> "Error: Cannot write output file: ",
       rc |-> EXIT_INTERNAL_ERROR, target |-> old_target, tmp_file |-> NoFile]
  ELSE
    [stdout |-> <<>>, stderr |-> o.stderr, rc |-> o.rc,
     target |-> old_target, tmp_file |-> NoFile]

InitOutput ==
  /\ pc = "start"
  /\ \/ /\ mode = "loads"
        /\ input \in LoadsInputs
        /\ opt_max_length = [has_value |-> FALSE, value |-> 0]
     \/ /\ mode = "dumps"
        /\ input \in DumpsInputs
        /\ opt_max_length \in MaxLengths
  /\ stdout = <<>> /\ stderr = "" /\ rc = 0
  /\ target \in {NoFile, FileOf(OldContent)}
  /\ tmp_file = NoFile
  /\ EscapeIdle /\ CodecIdle /\ SplitIdle /\ MergeIdle
  /\ PackIdle /\ LexIdle

\* The assignments of a run of main that ended as m says.
MainReturns(m) ==
  /\ stdout' = m.stdout /\ stderr' = m.stderr /\ rc' = m.rc
  /\ target' = m.target /\ tmp_file' = m.tmp_file
  /\ pc' = "exited"
  /\ UNCHANGED <<mode, input, opt_max_length>>
  /\ UNCHANGED <<escapeVars, codecVars, splitVars, mergeVars>>
  /\ UNCHANGED <<packVars, lexVars>>

\* main with --loads and --output.
MainLoadsOutput ==
  /\ pc = "start"
  /\ mode = "loads"
  /\ \E opens, renames \in BOOLEAN :
       MainReturns(main_output(do_loads(input), target, opens, renames))

\* main with --dumps and --output.
MainDumpsOutput ==
  /\ pc = "start"
  /\ mode = "dumps"
  /\ \E opens, renames \in BOOLEAN :
       MainReturns(main_output(do_dumps(input, opt_max_length), target,
                               opens, renames))

NextOutput == MainLoadsOutput \/ MainDumpsOutput

SpecOutput == InitOutput /\ [][NextOutput]_vars

\* C17: with --output, the target file is replaced only when the operation
\* succeeded; on any failure the temporary file is removed and the content
\* of the target file is left as it was before the run.
OutputReplacedOnSuccessOnly ==
  [][pc' = "exited" =>
       /\ tmp_file' = NoFile
       /\ operation_error # "none" => target' = target]_vars

-----------------------------------------------------------------------------
(* unescape_sisl_string applied to \u and \U escapes *)

\* \uWXYZ for code points around the surrogate range and at both ends of
\* the range of four digits.
ShortEscapes ==
  {B(<<"\\", "u", w, x, y, z>>) :
     w \in {"0", "d", "D", "e", "f"}, x \in {"0", "7", "8", "b", "f"},
     y \in {"0", "f"}, z \in {"0", "F"}}

\* \U00ABWXYZ for code points in the surrogate range, around 0x10FFFF and
\* above it, and \UFFFFFFFF.
LongEscapes ==
  {B(<<"\\", "U", "0", "0", a, b, w, x, "f", z>>) :
     a \in {"0", "1", "2"}, b \in {"0", "1", "f"}, w \in {"0", "d", "f"},
     x \in {"0", "8", "f"}, z \in {"0", "f"}}
  \cup {B(<<"\\", "U", "f", "f", "f", "f", "f", "f", "f", "f">>)}

\* An escape alone, and one between two plain bytes.
EscapeTexts ==
  ShortEscapes \cup LongEscapes \cup
  {B(<<"a">>) \o e \o B(<<"b">>) :
     e \in {B(<<"\\", "u", "d", "8", "0", "0">>),
            B(<<"\\", "u", "0", "0", "e", "9">>),
            B(<<"\\", "U", "0", "0", "1", "1", "0", "0", "0", "0">>)}}

InitUnescape ==
  /\ pc = "escaped"
  /\ raw = <<>>
  /\ escaped \in EscapeTexts
  /\ unescaped = Ok(<<>>)
  /\ CodecIdle /\ SplitIdle /\ MergeIdle /\ CliIdle
  /\ PackIdle /\ LexIdle

NextUnescape == Unescape

SpecUnescape == InitUnescape /\ [][NextUnescape]_vars

\* The number the hex digits s[from..to] denote, every number from
\* 0x110000 up counted as 0x110000.
RECURSIVE HexNumber(_, _, _)
HexNumber(s, from, to) ==
  IF from > to THEN 0
  ELSE With(HexNumber(s, from, to - 1) * 16 + hex_value(s[to]), LAMBDA n :
         IF n >= CodePointLimit THEN CodePointLimit ELSE n)

\* The positions in s of a backslash that starts an escape \u or \U with
\* all its hex digits.
UnicodeEscapesOf(s) ==
  {k \in 1..Len(s) :
     /\ s[k] = Ord["\\"]
     /\ k + 1 <= Len(s)
     /\ s[k + 1] \in {Ord["u"], Ord["U"]}
     /\ k + 1 + (IF s[k + 1] = Ord["u"] THEN 4 ELSE 8) <= Len(s)
     /\ \A h \in (k + 2)..(k + 1 + (IF s[k + 1] = Ord["u"] THEN 4 ELSE 8)) :
          is_hex_digit(s[h])}

\* The code point of the escape at position k of s.
CodePointAt(s, k) ==
  HexNumber(s, k + 2, k + 1 + (IF s[k + 1] = Ord["u"] THEN 4 ELSE 8))

\* The surrogate code points, U+D800 to U+DFFF.
Surrogates == 55296..57343

\* C20: unescape_sisl_string raises EscapeError for every \u or \U escape
\* whose code point lies in the surrogate range U+D800 to U+DFFF or above
\* U+10FFFF, and emits no UTF-8 bytes for such a code point.
SurrogatesRejected ==
  pc = "unescaped" =>
    \A k \in UnicodeEscapesOf(escaped) :
      (CodePointAt(escaped, k) \in Surrogates
         \/ CodePointAt(escaped, k) >= CodePointLimit)
      => unescaped = Throw("EscapeError")

----------------------------------------------------------------------------
(* dumps of a value that is no object at the top level *)

\* The values given to dumps: the members of CodecMembers, of every kind
\* (null, bool, int, float, string, list and object).
TopValues == CodecMembers \cup {JList(<<JObj(<<>>)>>), JBool(FALSE), JStr(<<>>)}

InitTop ==
  /\ pc = "start"
  /\ v1 \in TopValues
  /\ v2 \in CodecOthers
  /\ enc1 = Ok(<<>>) /\ enc2 = Ok(<<>>) /\ dec1 = Ok(JNull)
  /\ EscapeIdle /\ SplitIdle /\ MergeIdle /\ CliIdle
  /\ PackIdle /\ LexIdle

NextTop == Dumps

SpecTop == InitTop /\ [][NextTop]_vars

\* C21: dumps(v) raises CodecError and returns no bytes whenever v is not an
\* object at the top level (null, bool, number, string or array).
DumpsTopLevelObjectOnly ==
  (pc = "dumped" /\ v1.kind # "obj")
    => (enc1.err = "CodecError" /\ enc1.val = <<>>)

\* dumps was called for an array and for a string, and raised CodecError.
DumpsTopLevelObjectOnlyWitness ==
  /\ pc = "dumped"
  /\ v1.kind \in {"list", "str"}
  /\ enc1.err = "CodecError"

----------------------------------------------------------------------------
(* split.cpp: split_dumps step by step *)

\* The budgets of the stepwise runs.
PackBudgets == (MaxBudget - 20)..MaxBudget

\* The values of the stepwise runs: one to four leaves, under objects and
\* lists.
PackMembers ==
  {JInt(1),
   JObj(<<>>),
   JObj(<<Entry(B(<<"x">>), JInt(1)), Entry(B(<<"y">>), JNull)>>),
   JList(<<JNull, JBool(FALSE)>>)}

PackValues == ObjectsOver({KeyA, KeyB}, PackMembers, MaxEntries)

InitPack ==
  /\ pc = "start"
  /\ j \in PackValues
  /\ max_length \in PackBudgets
  /\ parts = Ok(<<>>)
  /\ sisl_strings = <<>> /\ i = 0 /\ result = <<>>
  /\ parsed = MObject(<<>>) /\ merged = Ok(JNull) /\ regrouped = Ok(JNull)
  /\ EscapeIdle /\ CodecIdle /\ CliIdle
  /\ PackIdle /\ LexIdle

packFrame == <<escapeVars, codecVars, cliVars, lexVars>>

\* split_dumps up to the packing loop: the returns for an encoding that fits
\* and for a value with no leaf, the throw for a fragment that is too long,
\* or the vector fragments with i = 0 and an empty result.
PackBegin ==
  /\ pc = "start"
  /\ LET full == dumps(j)
         leaves == collect_leaves(j, <<>>)
         built == build_fragments(leaves)
     IN  IF Len(full.val) <= max_length THEN
           /\ parts' = Ok(<<>>) /\ pc' = "returned"
           /\ UNCHANGED <<fragments, i, result>>
         ELSE IF leaves = <<>> THEN
           /\ parts' = Ok(<<B(<<"{", "}">>)>>) /\ pc' = "returned"
           /\ UNCHANGED <<fragments, i, result>>
         ELSE IF \E k \in 1..Len(built) : Len(built[k].second) > max_length
         THEN
           /\ parts' = Throw("CodecError") /\ pc' = "thrown"
           /\ UNCHANGED <<fragments, i, result>>
         ELSE
           /\ fragments' = built /\ i' = 0 /\ result' = <<>>
           /\ pc' = "outer"
           /\ UNCHANGED parts
  /\ UNCHANGED <<j, max_length, combined, current_encoded>>
  /\ UNCHANGED <<sisl_strings, parsed, merged, regrouped, packFrame>>

\* A variant of PackStart that leaves i as it is.
PackStartSame ==
  /\ pc = "outer"
  /\ i < Len(fragments)
  /\ combined' = fragments[i + 1].first.entries
  /\ current_encoded' = fragments[i + 1].second
  /\ pc' = "inner"
  /\ UNCHANGED <<j, max_length, parts, fragments, result, i>>
  /\ UNCHANGED <<sisl_strings, parsed, merged, regrouped, packFrame>>

\* The head of the outer loop: the accumulator starts from fragment i.
PackStart ==
  /\ pc = "outer"
  /\ i < Len(fragments)
  /\ combined' = fragments[i + 1].first.entries
  /\ current_encoded' = fragments[i + 1].second
  /\ i' = i + 1
  /\ pc' = "inner"
  /\ UNCHANGED <<j, max_length, parts, fragments, result>>
  /\ UNCHANGED <<sisl_strings, parsed, merged, regrouped, packFrame>>

\* test_combined of the inner loop for the accumulator and fragment i.
test_combined_of(acc, frags, k) ==
  shallow_merge(acc, frags[k + 1].first.entries, 1)

\* One pass of the inner loop whose test_encoded fits: the accumulator
\* becomes test_combined and i advances.
PackAdd ==
  /\ pc = "inner"
  /\ i < Len(fragments)
  /\ LET test_combined == test_combined_of(combined, fragments, i)
         test_encoded == dumps(JObj(test_combined)).val
     IN  /\ Len(test_encoded) <= max_length
         /\ combined' = test_combined
         /\ current_encoded' = test_encoded
  /\ i' = i + 1
  /\ pc' = "inner"
  /\ UNCHANGED <<j, max_length, parts, fragments, result>>
  /\ UNCHANGED <<sisl_strings, parsed, merged, regrouped, packFrame>>

\* The inner loop ends, by its condition or by the break for a test_encoded
\* that is too long, and current_encoded is pushed to result.
PackEmit ==
  /\ pc = "inner"
  /\ \/ i >= Len(fragments)
     \/ /\ i < Len(fragments)
        /\ Len(dumps(JObj(test_combined_of(combined, fragments, i))).val)
             > max_length
  /\ result' = Append(result, current_encoded)
  /\ pc' = "outer"
  /\ UNCHANGED <<j, max_length, parts, fragments, i, combined,
                 current_encoded>>
  /\ UNCHANGED <<sisl_strings, parsed, merged, regrouped, packFrame>>

\* The outer loop ends and result is returned.
PackReturn ==
  /\ pc = "outer"
  /\ i >= Len(fragments)
  /\ parts' = Ok(result)
  /\ pc' = "returned"
  /\ UNCHANGED <<j, max_length, fragments, i, result, combined,
                 current_encoded>>
  /\ UNCHANGED <<sisl_strings, parsed, merged, regrouped, packFrame>>

NextPack == PackBegin \/ PackStart \/ PackAdd \/ PackEmit \/ PackReturn

SpecPack == InitPack /\ [][NextPack]_vars

\* The program runs on: a step that can be taken is taken.
SpecPackFair == SpecPack /\ WF_vars(NextPack)

\* The stepwise run ends as split_dumps does.
PackAgrees ==
  pc \in {"returned", "thrown"} => parts = split_dumps(j, max_length)

\* Some top-level key of the fragment is a key of the accumulator.
SharesTopKey(acc, next_entries) ==
  \E k \in 1..Len(next_entries) : JsonContains(acc, next_entries[k].key)

\* C22: during greedy packing, when the next fragment has a top-level key
\* that the accumulator already contains, the accumulator is emitted
\* unchanged and the next accumulator starts from that same fragment: the
\* fragment is neither merged into the accumulator nor skipped.
PackSharedKeyFlushes ==
  [][(/\ pc = "inner"
      /\ i < Len(fragments)
      /\ SharesTopKey(combined, fragments[i + 1].first.entries))
     => (/\ result' = Append(result, current_encoded)
         /\ i' = i
         /\ pc' = "outer")]_vars

\* The path a fragment carries for a path of the value: a list position N is
\* carried by the name _N.
CarriedPath(path) ==
  [k \in 1..Len(path) |->
     IF path[k].is_index
     THEN KeyComponent(<<Ord["_"]>> \o to_string(path[k].index))
     ELSE path[k]]

\* The leaves the strings carry, string by string.
RECURSIVE LeavesOfStrings(_, _)
LeavesOfStrings(strings, k) ==
  IF k > Len(strings) THEN <<>>
  ELSE collect_leaves(loads(strings[k]).val, <<>>)
       \o LeavesOfStrings(strings, k + 1)

\* C23: every primitive leaf of j (path and value) is carried by exactly one
\* of the strings the packing loop of split_dumps(j, max_length) returns, and
\* the leaves appear across the strings in the pre-order in which they were
\* collected: no leaf is lost, duplicated or reordered.
PackKeepsLeaves ==
  (pc = "returned" /\ fragments # <<>>) =>
    LET leaves == collect_leaves(j, <<>>)
    IN  LeavesOfStrings(parts.val, 1) =
          [k \in 1..Len(leaves) |->
             Leaf(CarriedPath(leaves[k].path), leaves[k].value)]

\* The value found in v along the components of path from the k-th on; a
\* list position is found in an array only, a key in an object only.
NotFound == [found |-> FALSE, val |-> JNull]

RECURSIVE ValueAt(_, _, _)
ValueAt(v, path, k) ==
  IF k > Len(path) THEN [found |-> TRUE, val |-> v]
  ELSE IF path[k].is_index THEN
    IF v.kind = "list" /\ path[k].index < Len(v.items)
    THEN ValueAt(v.items[path[k].index + 1], path, k + 1)
    ELSE NotFound
  ELSE IF v.kind = "obj" /\ JsonContains(v.entries, path[k].key)
  THEN ValueAt((CHOOSE e \in {v.entries[n] : n \in 1..Len(v.entries)} :
                  e.key = path[k].key).val, path, k + 1)
  ELSE NotFound

\* Some leaf lies at or under the path.
LeafUnder(leaves, path) ==
  \E k \in 1..Len(leaves) :
    /\ Len(leaves[k].path) >= Len(path)
    /\ SubSeq(leaves[k].path, 1, Len(path)) = path

\* C24: for a leaf of j that lies under a list at index n, merging the
\* fragments split_dumps built yields a list at the list's path, with the
\* leaf at index n and null at every position no leaf lies under.
ListLeavesMergedAsLists ==
  pc = "merged" =>
    LET leaves == collect_leaves(j, <<>>)
    IN  \A k \in 1..Len(leaves) : \A m \in 1..Len(leaves[k].path) :
          leaves[k].path[m].is_index =>
            /\ merged.err = "none"
            /\ ValueAt(merged.val, leaves[k].path, 1)
                 = [found |-> TRUE, val |-> leaves[k].value]
            /\ LET at == SubSeq(leaves[k].path, 1, m - 1)
                   list == ValueAt(merged.val, at, 1)
               IN  /\ list.found /\ list.val.kind = "list"
                   /\ \A n \in 1..Len(list.val.items) :
                        LeafUnder(leaves, Append(at, IndexComponent(n - 1)))
                          \/ list.val.items[n] = JNull

\* A step of the loops advances i by one, or pushes the accumulator, or is
\* the return at the end of the outer loop.
PackStepAdvances ==
  pc \in {"outer", "inner"} =>
    \/ i' = i + 1 /\ result' = result
    \/ i' = i /\ result' = Append(result, current_encoded)
    \/ i' = i /\ result' = result /\ pc' = "returned"

\* C29: the packing loop of split_dumps ends for every list of fragments:
\* each step of the inner or outer loop advances the fragment index by one
\* or emits the accumulator, and the strings returned are at least one and
\* at most as many as the leaves.
PackTerminates ==
  /\ <>(pc \in {"returned", "thrown"})
  /\ [][PackStepAdvances]_vars
  /\ []((pc = "returned" /\ fragments # <<>>) =>
          /\ Len(parts.val) >= 1
          /\ Len(parts.val) <= Len(collect_leaves(j, <<>>)))

\* The loop ran and returned more than one string.
PackTerminatesWitness ==
  /\ pc = "returned"
  /\ Len(fragments) >= 3
  /\ Len(parts.val) >= 2

\* C25: merge_sisl_strings of a list that holds the single SISL string s
\* behaves as loads(s): both return the same value, or both raise an error of
\* the same kind, for every s.
MergeOneIsLoads ==
  pc = "merged" =>
    /\ merged.err = dec1.err
    /\ merged.err = "none" => merged.val = dec1.val

----------------------------------------------------------------------------
(* sisl_lexer.cpp: calls of next_token and peek_token on one lexer *)

\* The bytes the inputs of the lexer are made of.
LexBytes ==
  {Ord["\""], Ord["\\"], Ord["x"], Ord["{"], Ord["#"], Ord[" "], LF}

\* Most bytes of an input of the lexer, and most calls made on it.
MaxLexLen == 4
MaxCalls == 3

InitLexer ==
  /\ pc = "lexing"
  /\ input_ \in SeqsUpTo(LexBytes, MaxLexLen)
  /\ lexer_ = NewLexer
  /\ tok = [op |-> "none", n |-> 0, err |-> "none", tok |-> NoToken]
  /\ tokens = <<>>
  /\ grouping = Ok(<<>>)
  /\ EscapeIdle /\ CodecIdle /\ SplitIdle /\ MergeIdle /\ CliIdle /\ PackIdle

lexFrame ==
  <<escapeVars, codecVars, splitVars, mergeVars, cliVars, packVars>>

\* What a call gave: the token, or the LexerError with its line and column.
CallResult(op, r) ==
  IF r.err = "none"
  THEN [op |-> op, n |-> tok.n + 1, err |-> "none", tok |-> r.tok]
  ELSE [op |-> op, n |-> tok.n + 1, err |-> r.err,
        tok |-> Token("LEXER_ERROR", <<>>, r.line, r.column)]

\* lexer_.next_token(); a LexerError leaves the caller.
NextToken ==
  /\ pc = "lexing"
  /\ tok.n < MaxCalls
  /\ LET r == next_token(input_, lexer_)
     IN  /\ tok' = CallResult("next_token", r)
         /\ IF r.err = "none"
            THEN lexer_' = r.lx /\ tokens' = Append(tokens, r.tok)
                 /\ pc' = "lexing"
            ELSE UNCHANGED <<lexer_, tokens>> /\ pc' = "thrown"
  /\ UNCHANGED <<input_, grouping, lexFrame>>

\* lexer_.peek_token(); a LexerError leaves the caller.
PeekToken ==
  /\ pc = "lexing"
  /\ tok.n < MaxCalls
  /\ LET r == peek_token(input_, lexer_)
     IN  /\ tok' = CallResult("peek_token", r)
         /\ IF r.err = "none"
            THEN lexer_' = r.lx /\ pc' = "lexing"
            ELSE UNCHANGED lexer_ /\ pc' = "thrown"
  /\ UNCHANGED <<input_, tokens, grouping, lexFrame>>

NextLexer == NextToken \/ PeekToken

SpecLexer == InitLexer /\ [][NextLexer]_vars

\* The offset of the first byte at or after offset pos that is no white
\* space, or the end of the text.
Blank == {Ord[" "], TAB, CR, LF}

FirstByte(text, pos) ==
  CHOOSE k \in pos..Len(text) :
    /\ k = Len(text) \/ text[k + 1] \notin Blank
    /\ \A m \in (pos + 1)..k : text[m] \in Blank

\* The line feeds among the first k bytes of the text.
LineFeeds(text, k) == {m \in 1..k : text[m] = LF}

\* The line of the byte at offset k: one plus the line feeds before it.
LineOf(text, k) == 1 + Cardinality(LineFeeds(text, k))

\* The column of the byte at offset k: the bytes since the last line feed
\* before it, the first of them being column 1.
ColumnOf(text, k) ==
  IF LineFeeds(text, k) = {} THEN k + 1
  ELSE k + 1 - (CHOOSE m \in LineFeeds(text, k) :
                  \A o \in LineFeeds(text, k) : o <= m)

CarriesPosition(t, text, k) ==
  t.line = LineOf(text, k) /\ t.column = ColumnOf(text, k)

\* A call that scans (no token is held back): the token carries the place of
\* its first byte; a LexerError carries the place of the token's first byte,
\* which is the offending byte when no token starts there, or the place the
\* input ended at when it ends behind the backslash of an escape.  A scan
\* that begins at a double quote gives a STRING whose closing quote is in the
\* input, or a LexerError.
ScanPositioned ==
  (~lexer_.has_peeked /\ tok'.n = tok.n + 1) =>
    LET k == FirstByte(input_, lexer_.pos)
    IN  /\ tok'.err = "none" => CarriesPosition(tok'.tok, input_, k)
        /\ tok'.err # "none" =>
             /\ tok'.err = "LexerError"
             /\ \/ CarriesPosition(tok'.tok, input_, k)
                \/ /\ input_[k + 1] = Ord["\""]
                   /\ input_[Len(input_)] = Ord["\\"]
                   /\ CarriesPosition(tok'.tok, input_, Len(input_))
        /\ (k < Len(input_) /\ input_[k + 1] = Ord["\""]) =>
             \/ tok'.err = "LexerError"
             \/ /\ tok'.tok.type = "STRING"
                /\ lexer_'.pos >= k + 2
                /\ input_[lexer_'.pos] = Ord["\""]
                /\ tok'.tok.value = SubSeq(input_, k + 2, lexer_'.pos - 1)

\* C27: every token the lexer returns, and every LexerError, carries the
\* 1-based line and column of the first byte of the token or of the offending
\* byte, the line being one plus the line feeds before that byte and the
\* column counting the bytes since the last line feed from 1; an input that
\* ends inside a string literal raises LexerError.
TokensCarryPosition == [][ScanPositioned]_vars

\* A token on the second line was returned, and a call raised LexerError.
TokensCarryPositionWitness ==
  /\ pc = "thrown"
  /\ tok.tok.line = 2 /\ tok.tok.column = 2
  /\ Len(tokens) >= 1
  /\ tokens[1].line = 2 /\ tokens[1].column = 1

\* After a peek_token that returned a token, the next call, next_token or
\* peek_token, returns that token.
PeekIsNext ==
  (tok.op = "peek_token" /\ tok.err = "none" /\ tok'.n = tok.n + 1) =>
    (tok'.err = "none" /\ tok'.tok = tok.tok)

\* The tokens next_token returned are those a lexer gives on which no other
\* call is made, and a LexerError of next_token is the one that lexer gives.
TokensAsWithoutPeek ==
  LET alone == token_stream(input_, NewLexer)
  IN  /\ tokens = [k \in 1..Len(tokens) |-> TokenAt(alone, k)]
      /\ (tok.op = "next_token" /\ tok.err # "none") =>
           tok.tok = TokenAt(alone, Len(tokens) + 1)

----------------------------------------------------------------------------
(* sisl_parser.cpp: Parser(input_).parse() on texts with commas *)

\* The pieces the texts are put together from: the braces, the comma, an
\* element, the head of an element that holds a grouping, and a line feed.
\* No piece holds a brace or a comma inside a string.
ElementPiece == ElementText(KeyA, TypeInt, IntText(1))
ObjHeadPiece == KeyB \o ColonSpace \o <<Ord["!"]>> \o TypeObj \o B(<<" ", "{">>)

Pieces ==
  {<<Ord["{"]>>, <<Ord["}"]>>, <<Ord[","]>>, ElementPiece, ObjHeadPiece, <<LF>>}

\* Most pieces of a text.
MaxPieces == 5

\* Longer texts: two elements and a trailing comma, a trailing comma in an
\* inner grouping, and each kind of token behind the outer grouping.
LongTexts ==
  {JoinText(s, <<>>) : s \in
     {<<B(<<"{">>), ElementPiece, B(<<",">>), <<LF>>, ElementPiece,
        B(<<",">>), B(<<"}">>)>>,
      <<B(<<"{">>), ObjHeadPiece, ElementPiece, B(<<",">>), B(<<"}">>),
        B(<<",">>), B(<<"}">>)>>,
      <<B(<<"{">>), ObjHeadPiece, ElementPiece, B(<<",">>), B(<<",">>),
        B(<<"}">>), B(<<"}">>)>>,
      <<B(<<"{">>), ElementPiece, B(<<",">>), B(<<"}">>), <<LF>>,
        B(<<" ">>), IntText(1)>>,
      <<B(<<"{">>), B(<<"}">>), <<LF>>, <<LF>>, B(<<" ", " ", ":">>)>>,
      <<B(<<"{">>), B(<<"}">>), B(<<" ", "!">>)>>}}

ParseTexts ==
  {JoinText(s, <<>>) : s \in SeqsUpTo(Pieces, MaxPieces)} \cup LongTexts

InitParse ==
  /\ pc = "start"
  /\ input_ \in ParseTexts
  /\ lexer_ = NewLexer
  /\ tok = [op |-> "none", n |-> 0, err |-> "none", tok |-> NoToken]
  /\ tokens = <<>>
  /\ grouping = Ok(<<>>)
  /\ EscapeIdle /\ CodecIdle /\ SplitIdle /\ MergeIdle /\ CliIdle /\ PackIdle

\* Parser(input_).parse() returns or throws.
Parse ==
  /\ pc = "start"
  /\ grouping' = parse(input_)
  /\ pc' = IF grouping'.err = "none" THEN "parsed" ELSE "thrown"
  /\ UNCHANGED <<input_, lexer_, tok, tokens, lexFrame>>

NextParse == Parse

SpecParse == InitParse /\ [][NextParse]_vars

\* The byte at offset k of the text, 0 at its end.
ByteAt(text, k) == IF k < Len(text) THEN text[k + 1] ELSE 0

\* The last byte before the q-th that is no white space, 0 if there is none.
ByteBefore(text, q) ==
  IF \A m \in 1..(q - 1) : text[m] \in Blank THEN 0
  ELSE text[CHOOSE m \in 1..(q - 1) :
              /\ text[m] \notin Blank
              /\ \A o \in (m + 1)..(q - 1) : text[o] \in Blank]

\* The commas that stand right before a '}' and right after an element.
TrailingCommas(text) ==
  {q \in 1..Len(text) :
     /\ text[q] = Ord[","]
     /\ ByteAt(text, FirstByte(text, q)) = Ord["}"]
     /\ ByteBefore(text, q) \notin {0, Ord["{"], Ord[","]}}

\* The commas that stand first in a grouping or right after a comma.
MisplacedCommas(text) ==
  {q \in 1..Len(text) :
     text[q] = Ord[","] /\ ByteBefore(text, q) \in {Ord["{"], Ord[","]}}

Without(text, q) == SubSeq(text, 1, q - 1) \o SubSeq(text, q + 1, Len(text))

\* The ends of the heads of the text that are a whole grouping, with a token
\* behind.
OuterEnds(text) ==
  {p \in 1..Len(text) :
     /\ text[p] = Ord["}"]
     /\ FirstByte(text, p) < Len(text)
     /\ parse(SubSeq(text, 1, p)).err = "none"}

\* C26: the parser accepts a grouping with a single trailing comma before
\* '}' and yields the same elements as without it, rejects a grouping with a
\* leading comma or two consecutive commas, and raises ParseError carrying
\* the offending token's line and column whenever a token other than end of
\* input follows the outer grouping.
ParserCommasAndTrailer ==
  pc \in {"parsed", "thrown"} =>
    /\ \A q \in TrailingCommas(input_) :
         LET without == parse(Without(input_, q))
         IN  /\ grouping.err = without.err
             /\ without.err = "none" => grouping = without
    /\ MisplacedCommas(input_) # {} => grouping.err = "ParseError"
    /\ \A p \in OuterEnds(input_) :
         /\ grouping.err = "ParseError"
         /\ CarriesPosition(grouping, input_, FirstByte(input_, p))

\* A grouping of two elements on two lines with a trailing comma was parsed.
ParserCommasAndTrailerWitness ==
  /\ pc = "parsed"
  /\ TrailingCommas(input_) # {}
  /\ Len(grouping.elements) = 2
  /\ \E m \in 1..Len(input_) : input_[m] = LF
====
